---- MODULE Spec2Model ----
(***************************************************************************)
(* Order placement, duplicate guard, price reconciliation, persistence     *)
(* transaction and approval of the coffee-ordering backend                 *)
(* (src/routes/orderRoutes.js).                                            *)
(*                                                                         *)
(* Money is in cents.  Catalog prices are whole currency units, so that a  *)
(* percentage discount of a line is again a whole number of cents.         *)
(* Every await of a handler is a point where another request may run; one  *)
(* action models the code from one await to the next.                      *)
(***************************************************************************)
EXTENDS Integers, Sequences, FiniteSets, TLC

\* ---------------------------------------------------------------- bounds
NReq == 2
MaxTime == 16
TickStep == 8

Reqs == 1..NReq

\* ------------------------------------------------------ program constants
GuardWindow == 15
Tolerance == 1
\* the length of a reservation, hours
ReservationSpan == 2
\* createPoolWithRetry's default number of attempts per host
retries == 5

\* ---------------------------------------------------------------- helpers
Range(s) == {s[k] : k \in DOMAIN s}

Abs(x) == IF x < 0 THEN 0 - x ELSE x

Min(a, b) == IF a < b THEN a ELSE b

RECURSIVE SumOver(_, _)
SumOver(S, f) ==
  IF S = {} THEN 0
  ELSE LET x == CHOOSE y \in S : TRUE IN f[x] + SumOver(S \ {x}, f)

\* ------------------------------------------------- catalog store contents
\* menu_items rows at the start: availability, regular_price, sale_price
\* (NULL when sale_null)
menu_items ==
  (1 :> [availability |-> TRUE, regular_price |-> 500, sale_null |-> TRUE, sale_price |-> 0]) @@
  (2 :> [availability |-> TRUE, regular_price |-> 700, sale_null |-> FALSE, sale_price |-> 600]) @@
  (3 :> [availability |-> FALSE, regular_price |-> 400, sale_null |-> TRUE, sale_price |-> 0])

\* menu_item_supplements rows keyed by <<menu_item_id, supplement_id>>
menu_item_supplements ==
  (<<1, 1>> :> [additional_price |-> 100])

\* breakfasts rows
breakfasts ==
  (1 :> [availability |-> TRUE, price |-> 1000]) @@
  (2 :> [availability |-> TRUE, price |-> 800]) @@
  (3 :> [availability |-> FALSE, price |-> 900])

\* breakfast_option_groups rows: group id -> breakfast_id
breakfast_option_groups ==
  (1 :> [breakfast_id |-> 1]) @@
  (2 :> [breakfast_id |-> 1]) @@
  (3 :> [breakfast_id |-> 3])

\* breakfast_options rows
breakfast_options ==
  (1 :> [breakfast_id |-> 1, group_id |-> 1, additional_price |-> 0]) @@
  (2 :> [breakfast_id |-> 1, group_id |-> 1, additional_price |-> 100]) @@
  (3 :> [breakfast_id |-> 1, group_id |-> 2, additional_price |-> 200]) @@
  (4 :> [breakfast_id |-> 3, group_id |-> 3, additional_price |-> 100])

\* promotions rows; active stands for
\* active = TRUE AND NOW() BETWEEN start_date AND end_date; item_id 0 is NULL
promotions ==
  (1 :> [discount_percentage |-> 50, item_id |-> 0, active |-> TRUE]) @@
  (2 :> [discount_percentage |-> 50, item_id |-> 1, active |-> TRUE]) @@
  (3 :> [discount_percentage |-> 20, item_id |-> 0, active |-> FALSE])

\* users rows: id -> role
users ==
  (1 :> [role |-> "admin"]) @@
  (2 :> [role |-> "server"]) @@
  (3 :> [role |-> "customer"])

\* request_id values matching the UUID pattern
UUIDs == {"u1", "u2"}

\* ------------------------------------------------------------------ state
VARIABLES
  req,                      \* per request slot: handler position and locals
  recentRequests,           \* duplicate guard: entries (fingerprint, registration time)
  timers,                   \* pending setTimeout callbacks of the guard
  now,                      \* wall clock, seconds
  orders,                   \* committed rows of table orders
  order_items,              \* committed rows of table order_items
  breakfast_order_options,  \* committed rows of table breakfast_order_options
  notifications,            \* committed rows of table notifications
  tables,                   \* table id -> status
  catalog,                  \* current rows of table menu_items
  reservations,             \* rows of table reservations
  reserved_until,           \* table id -> column reserved_until, hours from now, 0 for NULL
  events,                   \* realtime events published so far
  db,                       \* the db module: position of createPoolWithRetry, pools, export
  nextId                    \* auto-increment counters of the store

\* Rows and events carry in "by" the request slot that wrote them; the field
\* is not part of the store, it attributes effects to requests.  In the same
\* way a request keeps in "seen" the prices its menu-item loop has read, and
\* in "raced" whether a menu item it has read was changed before its commit.

dbvars == <<orders, order_items, breakfast_order_options, notifications, catalog,
            reservations, reserved_until>>
guardvars == <<recentRequests, timers>>
vars == <<req, recentRequests, timers, now, orders, order_items,
          breakfast_order_options, notifications, tables, catalog, reservations,
          reserved_until, events, nextId, db>>

\* ---------------------------------------------------------- request slots
NoBody ==
  [items |-> <<>>, breakfastItems |-> <<>>, total_price |-> 0,
   order_type |-> "", delivery_address |-> "", promotion_id |-> 0,
   table_id |-> 0, request_id |-> ""]

EmptyTx == [orders |-> {}, order_items |-> {}, options |-> {}, notifications |-> {}]

IdleReq ==
  [kind |-> "none", pc |-> "idle", body |-> NoBody, sessionID |-> "",
   user |-> 0, param |-> 0, time |-> 0, insertId |-> 0,
   status |-> 0, err |-> "", detail |-> <<>>,
   i |-> 1, j |-> 1, calculatedTotal |-> 0, seen |-> <<>>, breakfastMap |-> <<>>,
   tableStatus |-> "", wroteTable |-> FALSE,
   orderId |-> 0, orderItemId |-> 0, notificationId |-> 0, tx |-> EmptyTx,
   conn |-> "none", fault |-> "", committed |-> FALSE,
   readApproved |-> 0, readSession |-> "",
   guardAt |-> 0 - 1, registered |-> FALSE, raced |-> FALSE]

\* res.status(code).json({error}) followed by return
Respond(q, code, e, d) ==
  [q EXCEPT !.status = code, !.err = e, !.detail = d, !.pc = "done"]

\* ------------------------------------------------ POST /orders: the guard
\* sha256 over JSON.stringify of the six fields: the fields it covers, and
\* nothing of delivery_address or promotion_id
orderHash(p) ==
  <<p.items, p.breakfastItems, p.table_id, p.order_type, p.total_price, p.request_id>>

\* table_id as the client sends it: 0 stands for a missing or falsy value,
\* n > 0 for the number n, 0 - 1 for a string without leading digits
\* ("abc"), and 0 - 10 - n for the digits of n followed by other characters
\* ("1abc")
NaN == 0 - 1

\* parseInt(table_id): the leading digits, NaN when there are none
parseInt(t) ==
  IF t > 0 THEN t
  ELSE IF t <= 0 - 10 THEN 0 - 10 - t
  ELSE NaN

\* the store's reading of a parameter compared with, or written to, an
\* integer column: the leading digits, 0 when there are none
SqlInt(t) ==
  IF t >= 0 THEN t
  ELSE IF t <= 0 - 10 THEN 0 - 10 - t
  ELSE 0

\* a string parameter that is not a number: a write with it is refused
\* when the store runs in strict mode, and converted otherwise
Truncated(t) == t < 0

\* !delivery_address || !delivery_address.trim()
BlankAddress(a) == a \in {"", " "}

\* a guard that never finds the fingerprint
GuardHas_never(h) == FALSE

\* recentRequests.has(orderHash)
GuardHas(h) == \E e \in recentRequests : e.hash = h

\* a handler without the total check
TotalCheck_skipped(q) == [q EXCEPT !.pc = "conn"]

\* the total check that ends reconciliation
TotalCheck(q) ==
  LET providedPrice == q.body.total_price IN
  IF Abs(providedPrice - q.calculatedTotal) > Tolerance
  THEN Respond(q, 400, "TotalMismatch", <<q.calculatedTotal, providedPrice>>)
  ELSE [q EXCEPT !.pc = "conn"]

\* code that follows the table block, up to the next await
AfterTable(q) ==
  IF q.body.promotion_id # 0 THEN [q EXCEPT !.pc = "promo"] ELSE TotalCheck(q)

\* code that follows the breakfast loop, up to the next await
AfterLines(q) ==
  IF q.body.table_id # 0 THEN [q EXCEPT !.pc = "table"] ELSE AfterTable(q)

\* code that follows the menu-item loop, up to the next await
AfterItems(q) ==
  IF Len(q.body.breakfastItems) > 0
  THEN [q EXCEPT !.pc = "breakfasts", !.j = 1]
  ELSE AfterLines(q)

\* request_id check, duplicate guard, and the synchronous field checks
Receive(r, p, sid) ==
  /\ req[r].kind = "none"
  /\ LET q0 == [req[r] EXCEPT !.kind = "post", !.body = p, !.sessionID = sid]
         h == orderHash(p)
     IN
     IF p.request_id \notin UUIDs
     THEN /\ req' = [req EXCEPT ![r] = Respond(q0, 400, "request_id", <<>>)]
          /\ UNCHANGED guardvars
     ELSE IF GuardHas(h)
     THEN /\ req' = [req EXCEPT ![r] =
                       Respond([q0 EXCEPT !.guardAt = now], 429, "Duplicate", <<>>)]
          /\ UNCHANGED guardvars
     ELSE /\ recentRequests' = recentRequests \cup {[hash |-> h, at |-> now]}
          /\ timers' = timers \cup {[hash |-> h, due |-> now + GuardWindow]}
          /\ LET q == [q0 EXCEPT !.guardAt = now, !.registered = TRUE] IN
             req' = [req EXCEPT ![r] =
               IF Len(p.items) = 0 /\ Len(p.breakfastItems) = 0
               THEN Respond(q, 400, "EmptyItems", <<>>)
               ELSE IF p.order_type \notin {"local", "delivery"}
               THEN Respond(q, 400, "OrderType", <<>>)
               ELSE IF p.order_type = "local" /\ (p.table_id = 0 \/ parseInt(p.table_id) = NaN)
               THEN Respond(q, 400, "TableRequired", <<>>)
               ELSE IF p.order_type = "delivery" /\ BlankAddress(p.delivery_address)
               THEN Respond(q, 400, "AddressRequired", <<>>)
               ELSE IF Len(p.items) > 0
               THEN [q EXCEPT !.pc = "items", !.i = 1]
               ELSE AfterItems(q)]
  /\ UNCHANGED <<db, now, dbvars, tables, events, nextId>>

\* a callback that stays scheduled after it has run
TimerFire_repeats(t) ==
  /\ t \in timers
  /\ t.due <= now
  /\ recentRequests' = {e \in recentRequests : e.hash # t.hash}
  /\ UNCHANGED <<db, timers, req, now, dbvars, tables, events, nextId>>

\* a timer callback that deletes nothing
TimerFire_keeps(t) ==
  /\ t \in timers
  /\ t.due <= now
  /\ timers' = timers \ {t}
  /\ UNCHANGED <<db, recentRequests, req, now, dbvars, tables, events, nextId>>

\* setTimeout(() => recentRequests.delete(orderHash), 15000)
TimerFire(t) ==
  /\ t \in timers
  /\ t.due <= now
  /\ timers' = timers \ {t}
  /\ recentRequests' = {e \in recentRequests : e.hash # t.hash}
  /\ UNCHANGED <<db, req, now, dbvars, tables, events, nextId>>

\* the clock advances; a due timer runs before time moves on
Tick ==
  /\ now < MaxTime
  /\ \A t \in timers : t.due > now
  /\ LET dues == {t.due : t \in timers}
         step == Min(now + TickStep, MaxTime)
     IN now' = IF dues = {} THEN step
               ELSE Min(step, CHOOSE d \in dues : \A e \in dues : d <= e)
  /\ UNCHANGED <<db, req, guardvars, dbvars, tables, events, nextId>>

\* ------------------------------------- POST /orders: price reconciliation
\* a base price that ignores the sale price
BasePrice_regular(m) == m.regular_price

\* sale price overrides regular price when present
BasePrice(m) == IF ~m.sale_null THEN m.sale_price ELSE m.regular_price

\* one pass of the menu-item loop: field checks, catalog read, unit price
ItemCheck(q) ==
  LET item == q.body.items[q.i]
      found == item.item_id \in DOMAIN catalog
      key == <<item.item_id, item.supplement_id>>
      expectedPrice == BasePrice(catalog[item.item_id])
      itemTotal == IF item.supplement_id # 0
                   THEN expectedPrice + menu_item_supplements[key].additional_price
                   ELSE expectedPrice
  IN
  IF item.item_id <= 0 THEN Respond(q, 400, "item_id", <<>>)
  ELSE IF item.quantity <= 0 THEN Respond(q, 400, "quantity", <<>>)
  ELSE IF item.unit_price <= 0 THEN Respond(q, 400, "unit_price", <<>>)
  ELSE IF ~found \/ ~catalog[item.item_id].availability
  THEN Respond(q, 400, "Unavailable", <<>>)
  ELSE IF item.supplement_id # 0 /\ key \notin DOMAIN menu_item_supplements
  THEN Respond(q, 400, "Supplement", <<>>)
  ELSE IF Abs(item.unit_price - itemTotal) > Tolerance
  THEN Respond(q, 400, "PriceMismatch", <<itemTotal, item.unit_price>>)
  ELSE LET q1 == [q EXCEPT !.calculatedTotal = @ + itemTotal * item.quantity,
                           !.seen = Append(@, itemTotal),
                           !.i = @ + 1]
       IN IF q.i < Len(q.body.items) THEN q1 ELSE AfterItems(q1)

ReconcileItem(r) ==
  /\ req[r].kind = "post" /\ req[r].pc = "items"
  /\ req' = [req EXCEPT ![r] = ItemCheck(req[r])]
  /\ UNCHANGED <<db, guardvars, now, dbvars, tables, events, nextId>>

\* rows of SELECT ... FROM breakfast_options WHERE breakfast_id = ? AND id IN (?)
OptionRows(b, ids) ==
  {o \in DOMAIN breakfast_options :
     breakfast_options[o].breakfast_id = b /\ o \in Range(ids)}

\* rows of SELECT id FROM breakfast_option_groups WHERE breakfast_id = ?
GroupRows(b) ==
  {g \in DOMAIN breakfast_option_groups : breakfast_option_groups[g].breakfast_id = b}

\* options.reduce((sum, opt) => sum + parseFloat(opt.additional_price || 0), 0)
OptionPrice(rows) ==
  SumOver(rows, [o \in DOMAIN breakfast_options |-> breakfast_options[o].additional_price])

\* option validation of one breakfast line: "ok", or the failure
OptionCheck(b, line, inErr) ==
  LET groups == GroupRows(b)
      options == OptionRows(b, line.option_ids)
      selectedGroups == {breakfast_options[o].group_id : o \in options}
  IN
  IF line.has_option_ids
  THEN IF groups # {}
       THEN IF inErr THEN "SqlError"
            ELSE IF Cardinality(options) # Len(line.option_ids) THEN "InvalidOptions"
            ELSE IF Cardinality(selectedGroups) # Cardinality(groups) THEN "MissingGroups"
            ELSE "ok"
       ELSE IF Len(line.option_ids) > 0 THEN "NoGroups" ELSE "ok"
  ELSE IF groups # {} THEN "MissingGroups" ELSE "ok"

\* a merge that keeps the quantity of the last line instead of the sum
MergeBreakfast_last(map, line, expectedPrice) ==
  LET at == {k \in DOMAIN map : map[k].breakfast_id = line.breakfast_id}
      m1 == IF at = {}
            THEN Append(map, [breakfast_id |-> line.breakfast_id, quantity |-> 0,
                              unit_price |-> expectedPrice, option_ids |-> <<>>])
            ELSE map
      k == CHOOSE x \in DOMAIN m1 : m1[x].breakfast_id = line.breakfast_id
      fresh == SelectSeq(line.option_ids, LAMBDA id : id \notin Range(m1[k].option_ids))
  IN [m1 EXCEPT ![k].quantity = line.quantity,
                ![k].option_ids = IF line.has_option_ids THEN @ \o fresh ELSE @]

\* breakfastMap: entries in insertion order, quantities summed, option ids
\* pushed when not yet included
MergeBreakfast(map, line, expectedPrice) ==
  LET at == {k \in DOMAIN map : map[k].breakfast_id = line.breakfast_id}
      m1 == IF at = {}
            THEN Append(map, [breakfast_id |-> line.breakfast_id, quantity |-> 0,
                              unit_price |-> expectedPrice, option_ids |-> <<>>])
            ELSE map
      k == CHOOSE x \in DOMAIN m1 : m1[x].breakfast_id = line.breakfast_id
      fresh == SelectSeq(line.option_ids, LAMBDA id : id \notin Range(m1[k].option_ids))
  IN [m1 EXCEPT ![k].quantity = @ + line.quantity,
                ![k].option_ids = IF line.has_option_ids THEN @ \o fresh ELSE @]

\* one pass of the breakfast loop
BreakfastCheck(q, inErr) ==
  LET line == q.body.breakfastItems[q.j]
      b == line.breakfast_id
      found == b \in DOMAIN breakfasts
      oc == OptionCheck(b, line, inErr)
      withOptions == line.has_option_ids /\ GroupRows(b) # {}
      expectedPrice == breakfasts[b].price +
                       (IF withOptions THEN OptionPrice(OptionRows(b, line.option_ids)) ELSE 0)
  IN
  IF b <= 0 THEN Respond(q, 400, "breakfast_id", <<>>)
  ELSE IF line.quantity <= 0 THEN Respond(q, 400, "quantity", <<>>)
  ELSE IF line.unit_price <= 0 THEN Respond(q, 400, "unit_price", <<>>)
  ELSE IF ~found \/ ~breakfasts[b].availability
  THEN Respond(q, 400, "Unavailable", <<>>)
  ELSE IF oc = "SqlError" THEN Respond(q, 500, "Failed", <<>>)
  ELSE IF oc # "ok" THEN Respond(q, 400, oc, <<>>)
  ELSE IF Abs(line.unit_price - expectedPrice) > Tolerance
  THEN Respond(q, 400, "PriceMismatch", <<expectedPrice, line.unit_price>>)
  ELSE LET q1 == [q EXCEPT !.breakfastMap = MergeBreakfast(@, line, expectedPrice),
                           !.calculatedTotal = @ + expectedPrice * line.quantity,
                           !.j = @ + 1]
       IN IF q.j < Len(q.body.breakfastItems) THEN q1 ELSE AfterLines(q1)

\* the driver's expansion of IN (?) for the option id list of line: an empty
\* list gives IN (), which the store may refuse as a syntax error
EmptyIn(line) == line.has_option_ids /\ Len(line.option_ids) = 0

ReconcileBreakfast(r) ==
  /\ req[r].kind = "post" /\ req[r].pc = "breakfasts"
  /\ LET line == req[r].body.breakfastItems[req[r].j] IN
     \E inErr \in BOOLEAN :
       /\ inErr => /\ EmptyIn(line)
                   /\ line.breakfast_id \in DOMAIN breakfasts
                   /\ GroupRows(line.breakfast_id) # {}
       /\ req' = [req EXCEPT ![r] = BreakfastCheck(req[r], inErr)]
  /\ UNCHANGED <<db, guardvars, now, dbvars, tables, events, nextId>>

\* ------------------------------------------------ POST /orders: the table
\* SELECT id, status FROM tables, with the two rejections
TableSelect(r) ==
  /\ req[r].kind = "post" /\ req[r].pc = "table"
  /\ LET q == req[r]
         tid == SqlInt(q.body.table_id)
     IN req' = [req EXCEPT ![r] =
          IF tid \notin DOMAIN tables THEN Respond(q, 400, "NoTable", <<>>)
          ELSE IF tables[tid] = "reserved" THEN Respond(q, 400, "Reserved", <<>>)
          ELSE IF tables[tid] # "occupied"
          THEN [q EXCEPT !.tableStatus = tables[tid], !.pc = "tableUpd"]
          ELSE AfterTable([q EXCEPT !.tableStatus = tables[tid]])]
  /\ UNCHANGED <<db, guardvars, now, dbvars, tables, events, nextId>>

\* UPDATE tables SET status = 'occupied', on the pool, outside any
\* transaction; in strict mode the store refuses a table_id that is not a
\* number, and the outer catch answers
TableUpdate(r) ==
  /\ req[r].kind = "post" /\ req[r].pc = "tableUpd"
  /\ \E strict \in BOOLEAN :
       /\ strict => Truncated(req[r].body.table_id)
       /\ IF strict
          THEN /\ req' = [req EXCEPT ![r] = Respond(req[r], 500, "Failed", <<>>)]
               /\ UNCHANGED tables
          ELSE /\ tables' = [tables EXCEPT ![SqlInt(req[r].body.table_id)] = "occupied"]
               /\ req' = [req EXCEPT ![r] = AfterTable([req[r] EXCEPT !.wroteTable = TRUE])]
  /\ UNCHANGED <<db, guardvars, now, dbvars, events, nextId>>

\* -------------------------------------------- POST /orders: the promotion
\* price of one menu-item line in the promotion pass
PromoItemPrice(item) ==
  LET key == <<item.item_id, item.supplement_id>> IN
  BasePrice(catalog[item.item_id]) * item.quantity +
  (IF item.supplement_id # 0 /\ key \in DOMAIN menu_item_supplements
   THEN menu_item_supplements[key].additional_price * item.quantity
   ELSE 0)

\* price of one breakfast line in the promotion pass
PromoBreakfastPrice(line) ==
  breakfasts[line.breakfast_id].price * line.quantity +
  (IF line.has_option_ids
   THEN OptionPrice(OptionRows(line.breakfast_id, line.option_ids)) * line.quantity
   ELSE 0)

\* itemPrice * (1 - discount), discount = discount_percentage / 100
Discounted(itemPrice, pct) == (itemPrice * (100 - pct)) \div 100

\* whether the promotion pass discounts a menu-item line
PromoApplies(promo, item) == promo.item_id = 0 \/ item.item_id = promo.item_id

\* promoCalculatedPrice
PromoTotal(body, promo) ==
  LET its == body.items
      bfs == body.breakfastItems
  IN SumOver(DOMAIN its,
             [k \in DOMAIN its |->
                IF PromoApplies(promo, its[k])
                THEN Discounted(PromoItemPrice(its[k]), promo.discount_percentage)
                ELSE PromoItemPrice(its[k])])
     + SumOver(DOMAIN bfs, [k \in DOMAIN bfs |-> PromoBreakfastPrice(bfs[k])])

\* the promotion lookup, the recomputation, and the total check behind it
Promotion(r) ==
  /\ req[r].kind = "post" /\ req[r].pc = "promo"
  /\ LET q == req[r]
         pid == q.body.promotion_id
         hit == pid \in DOMAIN promotions /\ promotions[pid].active
     IN
     \E inErr \in BOOLEAN :
       /\ inErr => hit /\ \E k \in DOMAIN q.body.breakfastItems :
                              EmptyIn(q.body.breakfastItems[k])
       /\ req' = [req EXCEPT ![r] =
            IF inErr THEN Respond(q, 500, "Failed", <<>>)
            ELSE IF hit
            THEN TotalCheck([q EXCEPT !.calculatedTotal = PromoTotal(q.body, promotions[pid])])
            ELSE TotalCheck(q)]
  /\ UNCHANGED <<db, guardvars, now, dbvars, tables, events, nextId>>

\* ------------------------------------------ POST /orders: the transaction
\* db.getConnection()
GetConnection(r) ==
  /\ req[r].kind = "post" /\ req[r].pc = "conn"
  /\ req' = [req EXCEPT ![r].conn = "held", ![r].pc = "begin"]
  /\ UNCHANGED <<db, guardvars, now, dbvars, tables, events, nextId>>

\* connection.beginTransaction()
BeginTransaction(r) ==
  /\ req[r].kind = "post" /\ req[r].pc = "begin"
  /\ req' = [req EXCEPT ![r].pc = "insOrder"]
  /\ UNCHANGED <<db, guardvars, now, dbvars, tables, events, nextId>>

\* where the handler goes after the menu-item inserts
AfterInsertItems(q) ==
  IF Len(q.body.breakfastItems) > 0 /\ Len(q.breakfastMap) > 0
  THEN [q EXCEPT !.pc = "insBreakfast", !.j = 1]
  ELSE [q EXCEPT !.pc = "details"]

\* where the handler goes after the inserts of breakfastMap entry j
AfterInsertBreakfast(q) ==
  IF q.j < Len(q.breakfastMap)
  THEN [q EXCEPT !.pc = "insBreakfast", !.j = @ + 1]
  ELSE [q EXCEPT !.pc = "details"]

\* an insert that prices the order from the catalog as it is now
InsertOrder_rereads(r) ==
  /\ req[r].kind = "post" /\ req[r].pc = "insOrder"
  /\ LET q == req[r]
         its == q.body.items
         row == [id |-> nextId.orders,
                 total_price |-> SumOver(DOMAIN its, [k \in DOMAIN its |-> PromoItemPrice(its[k])]),
                 order_type |-> q.body.order_type,
                 delivery_address |-> q.body.delivery_address,
                 promotion_id |-> q.body.promotion_id,
                 table_id |-> SqlInt(q.body.table_id), session_id |-> q.sessionID,
                 approved |-> 0, by |-> r]
         q1 == [q EXCEPT !.orderId = row.id, !.tx.orders = @ \cup {row}]
     IN req' = [req EXCEPT ![r] =
                  IF Len(q.body.items) > 0
                  THEN [q1 EXCEPT !.pc = "insItems", !.i = 1]
                  ELSE AfterInsertItems(q1)]
  /\ nextId' = [nextId EXCEPT !.orders = @ + 1]
  /\ UNCHANGED <<db, guardvars, now, dbvars, tables, events>>

\* INSERT INTO orders, with the computed total
InsertOrder(r) ==
  /\ req[r].kind = "post" /\ req[r].pc = "insOrder"
  /\ LET q == req[r]
         row == [id |-> nextId.orders, total_price |-> q.calculatedTotal,
                 order_type |-> q.body.order_type,
                 delivery_address |-> q.body.delivery_address,
                 promotion_id |-> q.body.promotion_id,
                 table_id |-> SqlInt(q.body.table_id), session_id |-> q.sessionID,
                 approved |-> 0, by |-> r]
         q1 == [q EXCEPT !.orderId = row.id, !.tx.orders = @ \cup {row}]
     IN req' = [req EXCEPT ![r] =
                  IF Len(q.body.items) > 0
                  THEN [q1 EXCEPT !.pc = "insItems", !.i = 1]
                  ELSE AfterInsertItems(q1)]
  /\ nextId' = [nextId EXCEPT !.orders = @ + 1]
  /\ UNCHANGED <<db, guardvars, now, dbvars, tables, events>>

\* INSERT INTO order_items for menu-item line i, with the client's unit_price
InsertItem(r) ==
  /\ req[r].kind = "post" /\ req[r].pc = "insItems"
  /\ LET q == req[r]
         item == q.body.items[q.i]
         row == [id |-> nextId.order_items, order_id |-> q.orderId,
                 item_id |-> item.item_id, breakfast_id |-> 0,
                 quantity |-> item.quantity, unit_price |-> item.unit_price,
                 supplement_id |-> item.supplement_id, by |-> r]
         q1 == [q EXCEPT !.tx.order_items = @ \cup {row}]
     IN req' = [req EXCEPT ![r] =
                  IF q.i < Len(q.body.items)
                  THEN [q1 EXCEPT !.i = @ + 1]
                  ELSE AfterInsertItems(q1)]
  /\ nextId' = [nextId EXCEPT !.order_items = @ + 1]
  /\ UNCHANGED <<db, guardvars, now, dbvars, tables, events>>

\* INSERT INTO order_items for breakfastMap entry j
InsertBreakfast(r) ==
  /\ req[r].kind = "post" /\ req[r].pc = "insBreakfast"
  /\ LET q == req[r]
         e == q.breakfastMap[q.j]
         row == [id |-> nextId.order_items, order_id |-> q.orderId,
                 item_id |-> 0, breakfast_id |-> e.breakfast_id,
                 quantity |-> e.quantity, unit_price |-> e.unit_price,
                 supplement_id |-> 0, by |-> r]
         q1 == [q EXCEPT !.tx.order_items = @ \cup {row}, !.orderItemId = row.id]
     IN req' = [req EXCEPT ![r] =
                  IF Len(e.option_ids) > 0
                  THEN [q1 EXCEPT !.pc = "insOptions", !.i = 1]
                  ELSE AfterInsertBreakfast(q1)]
  /\ nextId' = [nextId EXCEPT !.order_items = @ + 1]
  /\ UNCHANGED <<db, guardvars, now, dbvars, tables, events>>

\* INSERT INTO breakfast_order_options for option i of breakfastMap entry j
InsertOption(r) ==
  /\ req[r].kind = "post" /\ req[r].pc = "insOptions"
  /\ LET q == req[r]
         e == q.breakfastMap[q.j]
         row == [order_item_id |-> q.orderItemId,
                 breakfast_option_id |-> e.option_ids[q.i], by |-> r]
         q1 == [q EXCEPT !.tx.options = @ \cup {row}]
     IN req' = [req EXCEPT ![r] =
                  IF q.i < Len(e.option_ids)
                  THEN [q1 EXCEPT !.i = @ + 1]
                  ELSE AfterInsertBreakfast(q1)]
  /\ UNCHANGED <<db, guardvars, now, dbvars, tables, events, nextId>>

\* the joined SELECT of the order detail, on the connection
SelectDetails(r) ==
  /\ req[r].kind = "post" /\ req[r].pc = "details"
  /\ req' = [req EXCEPT ![r].pc = "insNotif"]
  /\ UNCHANGED <<db, guardvars, now, dbvars, tables, events, nextId>>

\* an insert that announces the notification before the commit
InsertNotification_emits(r) ==
  /\ req[r].kind = "post" /\ req[r].pc = "insNotif"
  /\ LET q == req[r]
         row == [id |-> nextId.notifications, type |-> "order",
                 reference_id |-> q.orderId, by |-> r]
     IN /\ req' = [req EXCEPT ![r].tx.notifications = @ \cup {row},
                              ![r].notificationId = row.id,
                              ![r].pc = "selNotif"]
        /\ events' = events \cup
             {[name |-> "newNotification", room |-> "staff-notifications",
               ref |-> row.id, by |-> r]}
  /\ nextId' = [nextId EXCEPT !.notifications = @ + 1]
  /\ UNCHANGED <<db, guardvars, now, dbvars, tables>>

\* INSERT INTO notifications
InsertNotification(r) ==
  /\ req[r].kind = "post" /\ req[r].pc = "insNotif"
  /\ LET q == req[r]
         row == [id |-> nextId.notifications, type |-> "order",
                 reference_id |-> q.orderId, by |-> r]
     IN req' = [req EXCEPT ![r].tx.notifications = @ \cup {row},
                           ![r].notificationId = row.id,
                           ![r].pc = "selNotif"]
  /\ nextId' = [nextId EXCEPT !.notifications = @ + 1]
  /\ UNCHANGED <<db, guardvars, now, dbvars, tables, events>>

\* SELECT * FROM notifications WHERE id = ?
SelectNotification(r) ==
  /\ req[r].kind = "post" /\ req[r].pc = "selNotif"
  /\ req' = [req EXCEPT ![r].pc = "commit"]
  /\ UNCHANGED <<db, guardvars, now, dbvars, tables, events, nextId>>

\* the events published after the commit
CreatedEvents(r, q) ==
  {[name |-> "newOrder", room |-> "broadcast", ref |-> q.orderId, by |-> r],
   [name |-> "newNotification", room |-> "staff-notifications",
    ref |-> q.notificationId, by |-> r]}
  \cup (IF q.body.table_id # 0 /\ q.tableStatus # "occupied"
        THEN {[name |-> "tableStatusUpdate", room |-> "broadcast",
               ref |-> q.body.table_id, by |-> r]}
        ELSE {})

\* connection.commit(), the emits, the 201, and the release of finally
Commit(r) ==
  /\ req[r].kind = "post" /\ req[r].pc = "commit"
  /\ LET q == req[r] IN
     /\ orders' = orders \cup q.tx.orders
     /\ order_items' = order_items \cup q.tx.order_items
     /\ breakfast_order_options' = breakfast_order_options \cup q.tx.options
     /\ notifications' = notifications \cup q.tx.notifications
     /\ events' = events \cup CreatedEvents(r, q)
     /\ req' = [req EXCEPT ![r] =
          [Respond(q, 201, "", <<q.orderId>>) EXCEPT
             !.tx = EmptyTx, !.committed = TRUE, !.conn = "released"]]
  /\ UNCHANGED <<db, guardvars, now, tables, catalog, reservations, reserved_until, nextId>>

\* the events already published when an emit, or the building of its
\* payload, throws: the emits run in the order newOrder, tableStatusUpdate,
\* newNotification
PublishedBefore(r, q) ==
  LET all == CreatedEvents(r, q)
      first == {e \in all : e.name = "newOrder"}
      second == {e \in all : e.name \in {"newOrder", "tableStatusUpdate"}}
  IN {{}, first, second}

\* connection.commit() succeeds and then an emit throws: the inner catch
\* takes over with the rows committed
PublishFails(r) ==
  /\ req[r].kind = "post" /\ req[r].pc = "commit"
  /\ LET q == req[r] IN
     /\ orders' = orders \cup q.tx.orders
     /\ order_items' = order_items \cup q.tx.order_items
     /\ breakfast_order_options' = breakfast_order_options \cup q.tx.options
     /\ notifications' = notifications \cup q.tx.notifications
     /\ \E published \in PublishedBefore(r, q) : events' = events \cup published
     /\ req' = [req EXCEPT ![r] =
          [q EXCEPT !.tx = EmptyTx, !.committed = TRUE, !.fault = "publish",
                    !.pc = "rollback"]]
  /\ UNCHANGED <<db, guardvars, now, tables, catalog, reservations, reserved_until, nextId>>

\* positions at which a statement of the transaction is about to run
TxStatementPcs ==
  {"insOrder", "insItems", "insBreakfast", "insOptions", "details", "insNotif", "selNotif"}

\* a statement of the transaction, or the commit, throws: the inner catch
StatementFails(r) ==
  /\ req[r].kind = "post" /\ req[r].pc \in TxStatementPcs \cup {"commit"}
  /\ req' = [req EXCEPT ![r].fault = IF req[r].pc = "commit" THEN "commit" ELSE "tx",
                        ![r].pc = "rollback"]
  /\ UNCHANGED <<db, guardvars, now, dbvars, tables, events, nextId>>

\* a catch block that keeps what the transaction had written
Rollback_keeps(r) ==
  /\ req[r].kind = "post" /\ req[r].pc = "rollback"
  /\ orders' = orders \cup req[r].tx.orders
  /\ order_items' = order_items \cup req[r].tx.order_items
  /\ breakfast_order_options' = breakfast_order_options \cup req[r].tx.options
  /\ notifications' = notifications \cup req[r].tx.notifications
  /\ req' = [req EXCEPT ![r] =
       [Respond(req[r], 500, "Failed", <<>>) EXCEPT !.tx = EmptyTx, !.conn = "released"]]
  /\ UNCHANGED <<db, guardvars, now, tables, catalog, reservations, reserved_until,
                 events, nextId>>

\* connection.rollback(), the 500, and the release of finally
Rollback(r) ==
  /\ req[r].kind = "post" /\ req[r].pc = "rollback"
  /\ req' = [req EXCEPT ![r] =
       [Respond(req[r], 500, "Failed", <<>>) EXCEPT !.tx = EmptyTx, !.conn = "released"]]
  /\ UNCHANGED <<db, guardvars, now, dbvars, tables, events, nextId>>

\* getConnection or beginTransaction throws: the outer catch, no release
AcquireFails(r) ==
  /\ req[r].kind = "post" /\ req[r].pc \in {"conn", "begin"}
  /\ req' = [req EXCEPT ![r] =
       [Respond(req[r], 500, "Failed", <<>>) EXCEPT
          !.fault = IF req[r].pc = "conn" THEN "conn" ELSE "begin"]]
  /\ UNCHANGED <<db, guardvars, now, dbvars, tables, events, nextId>>

\* the steps of a POST /orders request after its arrival that a cart of
\* menu-item lines without promotion takes
PostStep(r) ==
  \/ ReconcileItem(r)
  \/ TableSelect(r) \/ TableUpdate(r)
  \/ GetConnection(r) \/ BeginTransaction(r)
  \/ InsertOrder(r) \/ InsertItem(r)
  \/ SelectDetails(r) \/ InsertNotification(r) \/ SelectNotification(r)
  \/ Commit(r)

\* the further steps of carts with breakfast lines or a promotion
BreakfastStep(r) ==
  ReconcileBreakfast(r) \/ Promotion(r) \/ InsertBreakfast(r) \/ InsertOption(r)

\* the ways the store fails a POST /orders request
PostFault(r) ==
  StatementFails(r) \/ Rollback(r) \/ AcquireFails(r) \/ PublishFails(r)

\* ------------------------------------------------------ staff authorization
\* checkAdminOrServer(userId), for a session user that is present
checkAdminOrServer(userId) ==
  userId \in DOMAIN users /\ users[userId].role \in {"admin", "server"}

\* ------------------------------------------------ POST /orders/:id/approve
\* arrival: without a session user the guard's own log line reads
\* req.session.user.id and throws, which the catch answers
ApproveReceive(r, id, u, sid) ==
  /\ req[r].kind = "none"
  /\ LET q == [req[r] EXCEPT !.kind = "approve", !.param = id, !.user = u,
                             !.sessionID = sid]
     IN req' = [req EXCEPT ![r] =
                  IF u = 0 THEN Respond(q, 500, "Failed", <<>>)
                  ELSE [q EXCEPT !.pc = "auth"]]
  /\ UNCHANGED <<db, guardvars, now, dbvars, tables, events, nextId>>

\* the role lookup, then the check of the id
ApproveAuth(r) ==
  /\ req[r].kind = "approve" /\ req[r].pc = "auth"
  /\ LET q == req[r] IN
     req' = [req EXCEPT ![r] =
       IF ~checkAdminOrServer(q.user) THEN Respond(q, 403, "Forbidden", <<>>)
       ELSE IF q.param <= 0 THEN Respond(q, 400, "InvalidId", <<>>)
       ELSE [q EXCEPT !.pc = "select"]]
  /\ UNCHANGED <<db, guardvars, now, dbvars, tables, events, nextId>>

\* SELECT session_id, approved FROM orders, with the two rejections
ApproveSelect(r) ==
  /\ req[r].kind = "approve" /\ req[r].pc = "select"
  /\ LET q == req[r]
         orderRows == {o \in orders : o.id = q.param}
         row == CHOOSE o \in orderRows : TRUE
     IN req' = [req EXCEPT ![r] =
          IF orderRows = {} THEN Respond(q, 404, "NotFound", <<>>)
          ELSE IF row.approved # 0 THEN Respond(q, 400, "AlreadyApproved", <<>>)
          ELSE [q EXCEPT !.readApproved = row.approved,
                         !.readSession = row.session_id, !.pc = "update"]]
  /\ UNCHANGED <<db, guardvars, now, dbvars, tables, events, nextId>>

\* an update that flips the flag instead of setting it
SetApproved_flip(rows, id) ==
  {IF o.id = id THEN [o EXCEPT !.approved = 1 - @] ELSE o : o \in rows}

\* UPDATE orders SET approved = 1 WHERE id = ?
SetApproved(rows, id) ==
  {IF o.id = id THEN [o EXCEPT !.approved = 1] ELSE o : o \in rows}

ApproveUpdate(r) ==
  /\ req[r].kind = "approve" /\ req[r].pc = "update"
  /\ orders' = SetApproved(orders, req[r].param)
  /\ req' = [req EXCEPT ![r].pc = "details"]
  /\ UNCHANGED <<db, guardvars, now, order_items, breakfast_order_options,
                 notifications, tables, catalog, reservations, reserved_until,
                 events, nextId>>

\* an approval that also inserts a notification row for the order
ApproveDetails_notifies(r) ==
  /\ req[r].kind = "approve" /\ req[r].pc = "details"
  /\ LET q == req[r] IN
     /\ events' = events \cup
          {[name |-> "order-approved", room |-> q.readSession, ref |-> q.param, by |-> r],
           [name |-> "orderApproved", room |-> "broadcast", ref |-> q.param, by |-> r]}
     /\ notifications' = notifications \cup
          {[id |-> nextId.notifications, type |-> "order", reference_id |-> q.param, by |-> r]}
     /\ nextId' = [nextId EXCEPT !.notifications = @ + 1]
     /\ req' = [req EXCEPT ![r] = Respond(q, 200, "", <<>>)]
  /\ UNCHANGED <<db, guardvars, now, orders, order_items, breakfast_order_options, tables,
                 catalog, reservations, reserved_until>>

\* the joined SELECT, the two emits, and the 200
ApproveDetails(r) ==
  /\ req[r].kind = "approve" /\ req[r].pc = "details"
  /\ LET q == req[r] IN
     /\ events' = events \cup
          {[name |-> "order-approved", room |-> q.readSession, ref |-> q.param, by |-> r],
           [name |-> "orderApproved", room |-> "broadcast", ref |-> q.param, by |-> r]}
     /\ req' = [req EXCEPT ![r] = Respond(q, 200, "", <<>>)]
  /\ UNCHANGED <<db, guardvars, now, dbvars, tables, nextId>>

ApproveStep(r) ==
  ApproveAuth(r) \/ ApproveSelect(r) \/ ApproveUpdate(r) \/ ApproveDetails(r)

\* ------------------------------------------------------------- GET /orders
\* arrival: without a session user the answer is 403 at once
ListReceive(r, u, sid) ==
  /\ req[r].kind = "none"
  /\ LET q == [req[r] EXCEPT !.kind = "list", !.user = u, !.sessionID = sid]
     IN req' = [req EXCEPT ![r] =
                  IF u = 0 THEN Respond(q, 403, "Forbidden", <<>>)
                  ELSE [q EXCEPT !.pc = "auth"]]
  /\ UNCHANGED <<db, guardvars, now, dbvars, tables, events, nextId>>

\* the role lookup
ListAuth(r) ==
  /\ req[r].kind = "list" /\ req[r].pc = "auth"
  /\ req' = [req EXCEPT ![r] =
       IF ~checkAdminOrServer(req[r].user)
       THEN Respond(req[r], 403, "Forbidden", <<>>)
       ELSE [req[r] EXCEPT !.pc = "query"]]
  /\ UNCHANGED <<db, guardvars, now, dbvars, tables, events, nextId>>

\* the joined SELECT over all orders, answered with the ids found
ListQuery(r) ==
  /\ req[r].kind = "list" /\ req[r].pc = "query"
  /\ req' = [req EXCEPT ![r] = Respond(req[r], 200, "", <<{o.id : o \in orders}>>)]
  /\ UNCHANGED <<db, guardvars, now, dbvars, tables, events, nextId>>

ListStep(r) == ListAuth(r) \/ ListQuery(r)

\* --------------------------------------------------------- PUT /orders/:id
\* arrival: without a session user the guard's own log line reads
\* req.session.user.id and throws, which the catch answers
PutReceive(r, id, u, sid) ==
  /\ req[r].kind = "none"
  /\ LET q == [req[r] EXCEPT !.kind = "put", !.param = id, !.user = u,
                             !.sessionID = sid]
     IN req' = [req EXCEPT ![r] =
                  IF u = 0 THEN Respond(q, 500, "Failed", <<>>)
                  ELSE [q EXCEPT !.pc = "auth"]]
  /\ UNCHANGED <<db, guardvars, now, dbvars, tables, events, nextId>>

\* a handler that deletes the order of a staff caller's request
PutAuth_deletes(r) ==
  /\ req[r].kind = "put" /\ req[r].pc = "auth"
  /\ LET q == req[r] IN
     /\ req' = [req EXCEPT ![r] =
          IF ~checkAdminOrServer(q.user) THEN Respond(q, 403, "Forbidden", <<>>)
          ELSE IF q.param <= 0 THEN Respond(q, 400, "InvalidId", <<>>)
          ELSE Respond(q, 400, "NotSupported", <<>>)]
     /\ orders' = IF checkAdminOrServer(q.user)
                  THEN {o \in orders : o.id # q.param} ELSE orders
  /\ UNCHANGED <<db, guardvars, now, order_items, breakfast_order_options,
                 notifications, tables, catalog, reservations, reserved_until,
                 events, nextId>>

\* the role lookup, the check of the id, and the refusal
PutAuth(r) ==
  /\ req[r].kind = "put" /\ req[r].pc = "auth"
  /\ LET q == req[r] IN
     req' = [req EXCEPT ![r] =
       IF ~checkAdminOrServer(q.user) THEN Respond(q, 403, "Forbidden", <<>>)
       ELSE IF q.param <= 0 THEN Respond(q, 400, "InvalidId", <<>>)
       ELSE Respond(q, 400, "NotSupported", <<>>)]
  /\ UNCHANGED <<db, guardvars, now, dbvars, tables, events, nextId>>

\* --------------------------------------------------------- GET /orders/:id
\* arrival: the check of the id
GetReceive(r, id, sid) ==
  /\ req[r].kind = "none"
  /\ LET q == [req[r] EXCEPT !.kind = "get", !.param = id, !.sessionID = sid]
     IN req' = [req EXCEPT ![r] =
                  IF id <= 0 THEN Respond(q, 400, "InvalidId", <<>>)
                  ELSE [q EXCEPT !.pc = "query"]]
  /\ UNCHANGED <<db, guardvars, now, dbvars, tables, events, nextId>>

\* the joined SELECT of one order, answered with the row found
GetQuery(r) ==
  /\ req[r].kind = "get" /\ req[r].pc = "query"
  /\ LET q == req[r]
         rows == {o \in orders : o.id = q.param}
     IN req' = [req EXCEPT ![r] =
          IF rows = {} THEN Respond(q, 404, "NotFound", <<>>)
          ELSE Respond(q, 200, "", <<CHOOSE o \in rows : TRUE>>)]
  /\ UNCHANGED <<db, guardvars, now, dbvars, tables, events, nextId>>

\* ------------------------------------------------- POST /reservations
\* Reservation times are whole hours counted from the present, which is hour
\* 0 for as long as the requests of a behaviour last.  The repository holds
\* two versions of the route; one writes 'occupied' to the table and the other
\* 'reserved', and they publish different events.
ReservationStatuses == {"occupied", "reserved"}

ValidPhones == {"+1234567890"}

Reservation(tid, tm, phone) ==
  [table_id |-> tid, reservation_time |-> tm, phone_number |-> phone]

\* express-validator: table_id an integer of at least 1, phone_number in
\* international format
ReserveReceive(r, p) ==
  /\ req[r].kind = "none"
  /\ LET q == [req[r] EXCEPT !.kind = "reserve", !.param = p.table_id,
                             !.time = p.reservation_time]
     IN req' = [req EXCEPT ![r] =
          IF p.table_id < 1 \/ p.phone_number \notin ValidPhones
          THEN Respond(q, 400, "Validation", <<>>)
          ELSE [q EXCEPT !.pc = "rTable"]]
  /\ UNCHANGED <<db, guardvars, now, dbvars, tables, events, nextId>>

\* SELECT status, reserved_until FROM tables, and the check of the time
ReserveTable(r) ==
  /\ req[r].kind = "reserve" /\ req[r].pc = "rTable"
  /\ LET q == req[r] IN
     req' = [req EXCEPT ![r] =
       IF q.param \notin DOMAIN tables THEN Respond(q, 404, "NoTable", <<>>)
       ELSE IF q.time <= 0 THEN Respond(q, 400, "NotFuture", <<>>)
       ELSE [q EXCEPT !.pc = "rCheck"]]
  /\ UNCHANGED <<db, guardvars, now, dbvars, tables, events, nextId>>

\* SELECT id FROM reservations WHERE table_id = ? AND reservation_time
\* BETWEEN reservationDate AND reservationEnd
existingReservations(tid, tm) ==
  {x \in reservations :
     /\ x.table_id = tid
     /\ x.reservation_time >= tm /\ x.reservation_time <= tm + ReservationSpan}

ReserveCheck(r) ==
  /\ req[r].kind = "reserve" /\ req[r].pc = "rCheck"
  /\ LET q == req[r] IN
     req' = [req EXCEPT ![r] =
       IF existingReservations(q.param, q.time) # {}
       THEN Respond(q, 400, "AlreadyReserved", <<>>)
       ELSE [q EXCEPT !.pc = "rInsert"]]
  /\ UNCHANGED <<db, guardvars, now, dbvars, tables, events, nextId>>

\* INSERT INTO reservations, status 'pending'
ReserveInsert(r) ==
  /\ req[r].kind = "reserve" /\ req[r].pc = "rInsert"
  /\ LET row == [id |-> nextId.reservations, table_id |-> req[r].param,
                 reservation_time |-> req[r].time, status |-> "pending", by |-> r]
     IN /\ reservations' = reservations \cup {row}
        /\ req' = [req EXCEPT ![r].insertId = row.id, ![r].pc = "rUpdate"]
  /\ nextId' = [nextId EXCEPT !.reservations = @ + 1]
  /\ UNCHANGED <<db, guardvars, now, orders, order_items, breakfast_order_options,
                 notifications, catalog, reserved_until, tables, events>>

\* UPDATE tables SET status = ?, reserved_until = ? WHERE id = ?
ReserveUpdate(r) ==
  /\ req[r].kind = "reserve" /\ req[r].pc = "rUpdate"
  /\ \E st \in ReservationStatuses :
       /\ tables' = [tables EXCEPT ![req[r].param] = st]
       /\ req' = [req EXCEPT ![r].tableStatus = st, ![r].wroteTable = TRUE,
                             ![r].pc = "rNotify"]
  /\ reserved_until' = [reserved_until EXCEPT ![req[r].param] = req[r].time + ReservationSpan]
  /\ UNCHANGED <<db, guardvars, now, orders, order_items, breakfast_order_options,
                 notifications, catalog, reservations, events, nextId>>

\* the staff users of SELECT id FROM users WHERE role IN ('admin', 'server')
staffUsers == {u \in DOMAIN users : users[u].role \in {"admin", "server"}}

\* position of staff user u among the staff users, from 0
StaffRank(u) == Cardinality({v \in staffUsers : v < u})

\* the events of the version that writes status st
ReservationEvents(r, q, st) ==
  IF st = "reserved"
  THEN {[name |-> "notification", room |-> "user", ref |-> u, by |-> r] : u \in staffUsers}
       \cup {[name |-> "notification", room |-> "staff-notifications", ref |-> q.insertId, by |-> r],
             [name |-> "reservation-created", room |-> "broadcast", ref |-> q.insertId, by |-> r],
             [name |-> "reservation-created", room |-> "requester", ref |-> q.insertId, by |-> r],
             [name |-> "tableStatusUpdate", room |-> "broadcast", ref |-> q.param, by |-> r]}
  ELSE {[name |-> "newNotification", room |-> "staff-notifications", ref |-> q.insertId, by |-> r],
        [name |-> "reservationUpdate", room |-> "broadcast", ref |-> q.insertId, by |-> r]}

\* the read of the new reservation, one notification row per staff user, the
\* emits, and the 201
ReserveNotify(r) ==
  /\ req[r].kind = "reserve" /\ req[r].pc = "rNotify"
  /\ LET q == req[r] IN
     /\ notifications' = notifications \cup
          {[id |-> nextId.notifications + StaffRank(u), type |-> "reservation",
            reference_id |-> q.insertId, by |-> r] : u \in staffUsers}
     /\ nextId' = [nextId EXCEPT !.notifications = @ + Cardinality(staffUsers)]
     /\ events' = events \cup ReservationEvents(r, q, q.tableStatus)
     /\ req' = [req EXCEPT ![r] = Respond(q, 201, "", <<q.insertId>>)]
  /\ UNCHANGED <<db, guardvars, now, orders, order_items, breakfast_order_options,
                 catalog, reservations, reserved_until, tables>>

\* a statement of the route throws: the catch answers, what was written stays
ReserveFails(r) ==
  /\ req[r].kind = "reserve"
  /\ req[r].pc \in {"rTable", "rCheck", "rInsert", "rUpdate", "rNotify"}
  /\ req' = [req EXCEPT ![r] = Respond(req[r], 500, "Failed", <<>>)]
  /\ UNCHANGED <<db, guardvars, now, dbvars, tables, events, nextId>>

ReserveStep(r) ==
  \/ ReserveTable(r) \/ ReserveCheck(r) \/ ReserveInsert(r)
  \/ ReserveUpdate(r) \/ ReserveNotify(r)

\* ------------------------------------------------- PUT /menu-items/:id
\* rows an admin may give a menu item
MenuRows ==
  {[availability |-> a, regular_price |-> p, sale_null |-> n, sale_price |-> IF n THEN 0 ELSE 400] :
     a \in BOOLEAN, p \in {500, 600}, n \in BOOLEAN}

\* the UPDATE menu_items of an admin's request for an existing item with
\* valid fields; the requests that have read the item and not yet committed
\* are marked
MenuItemUpdate(id, row) ==
  /\ id \in DOMAIN catalog
  /\ row.regular_price > 0 /\ row.sale_price >= 0
  /\ catalog[id] # row
  /\ catalog' = [catalog EXCEPT ![id] = row]
  /\ req' = [r \in DOMAIN req |->
               IF /\ req[r].kind = "post" /\ req[r].pc # "done" /\ ~req[r].committed
                  /\ \E k \in 1..Len(req[r].seen) : req[r].body.items[k].item_id = id
               THEN [req[r] EXCEPT !.raced = TRUE]
               ELSE req[r]]
  /\ UNCHANGED <<db, guardvars, now, orders, order_items, breakfast_order_options,
                 notifications, tables, reservations, reserved_until, events, nextId>>

\* ----------------------------------------------------- config/db.js
\* The record db holds: pc, the position of the module ("load" before it is
\* required, "connect" while pool.getConnection() is awaited, "wait" while
\* the delay is awaited, "ready" after return pool, "failed" after the
\* throw); host and attempt, the loop variables; pools, the host of every
\* pool created so far, in order; pool, the module variable, as an index
\* into pools, 0 for undefined; exported, the value of module.exports in the
\* same way; up, the hosts that accept connections at the moment; log, one
\* entry per attempt made; queried, the outcome of the last query of a route.
hosts == <<"internal", "public">>

NoQuery == [pool |-> 0, ok |-> FALSE, sent |-> FALSE]

DbNotLoaded ==
  [pc |-> "load", host |-> 1, attempt |-> 1, pools |-> <<>>, pool |-> 0,
   exported |-> 0, up |-> {}, log |-> <<>>, queried |-> NoQuery]

DbConnected ==
  [pc |-> "ready", host |-> 1, attempt |-> 1, pools |-> <<"internal">>, pool |-> 1,
   exported |-> 1, up |-> {"internal", "public"},
   log |-> <<[host |-> 1, attempt |-> 1, delayed |-> FALSE, ok |-> TRUE]>>,
   queried |-> NoQuery]

\* pool = mysql.createPool({host, ...}) at the head of an attempt, up to the
\* await of pool.getConnection()
StartAttempt(d, h, a, delayed) ==
  [d EXCEPT !.host = h, !.attempt = a,
            !.pools = Append(@, hosts[h]), !.pool = Len(d.pools) + 1,
            !.log = Append(@, [host |-> h, attempt |-> a, delayed |-> delayed, ok |-> FALSE]),
            !.pc = "connect"]

\* require('./config/db'): createPoolWithRetry() runs up to its first await,
\* then the module body runs on to module.exports = pool
LoadDb ==
  /\ db.pc = "load"
  /\ \E up \in SUBSET Range(hosts) :
       LET d == StartAttempt([db EXCEPT !.up = up], 1, 1, FALSE) IN
       db' = [d EXCEPT !.exported = d.pool]
  /\ UNCHANGED <<req, guardvars, now, dbvars, tables, events, nextId>>

\* pool.getConnection() resolves: connection.release(), return pool
ConnectOk ==
  /\ db.pc = "connect"
  /\ hosts[db.host] \in db.up
  /\ db' = [db EXCEPT !.log[Len(db.log)].ok = TRUE, !.pc = "ready"]
  /\ UNCHANGED <<req, guardvars, now, dbvars, tables, events, nextId>>

\* a catch block that leaves the host after its first failed attempt
ConnectFails_leaves ==
  /\ db.pc = "connect"
  /\ hosts[db.host] \notin db.up
  /\ db' = IF db.host < Len(hosts) THEN StartAttempt(db, db.host + 1, 1, FALSE)
            ELSE [db EXCEPT !.pc = "failed"]
  /\ UNCHANGED <<req, guardvars, now, dbvars, tables, events, nextId>>

\* pool.getConnection() rejects: the catch block, then the delay, the next
\* host, or the throw behind the loops
ConnectFails ==
  /\ db.pc = "connect"
  /\ hosts[db.host] \notin db.up
  /\ db' = IF db.attempt < retries THEN [db EXCEPT !.pc = "wait"]
            ELSE IF db.host < Len(hosts) THEN StartAttempt(db, db.host + 1, 1, FALSE)
            ELSE [db EXCEPT !.pc = "failed"]
  /\ UNCHANGED <<req, guardvars, now, dbvars, tables, events, nextId>>

\* the delay has passed: the next attempt on the same host
DelayElapsed ==
  /\ db.pc = "wait"
  /\ db' = StartAttempt(db, db.host, db.attempt + 1, TRUE)
  /\ UNCHANGED <<req, guardvars, now, dbvars, tables, events, nextId>>

\* a host starts or stops accepting connections
HostChange ==
  /\ db.pc \in {"connect", "wait", "ready"}
  /\ \E h \in Range(hosts) :
       db' = [db EXCEPT !.up = IF h \in @ THEN @ \ {h} ELSE @ \cup {h}]
  /\ UNCHANGED <<req, guardvars, now, dbvars, tables, events, nextId>>

\* a route handler's db.query(...), on the object it got from require: it
\* throws on undefined, and else connects to the host of that pool
RouteQuery ==
  /\ db.pc \in {"connect", "wait", "ready"}
  /\ db' = [db EXCEPT !.queried =
              [pool |-> db.exported, sent |-> TRUE,
               ok |-> db.exported # 0 /\ db.pools[db.exported] \in db.up]]
  /\ UNCHANGED <<req, guardvars, now, dbvars, tables, events, nextId>>

\* ------------------------------------------------------------ initial state
DataInit ==
  /\ recentRequests = {}
  /\ timers = {}
  /\ now = 0
  /\ orders = {}
  /\ order_items = {}
  /\ breakfast_order_options = {}
  /\ notifications = {}
  /\ tables = (1 :> "available") @@ (2 :> "reserved")
  /\ catalog = menu_items
  /\ reservations = {}
  /\ reserved_until = (1 :> 0) @@ (2 :> 0)
  /\ events = {}
  /\ nextId = [orders |-> 1, order_items |-> 1, notifications |-> 1, reservations |-> 1]

\* the store's tables, and the db module loaded with its first attempt
\* successful
StoreInit ==
  /\ DataInit
  /\ db = DbConnected

Init ==
  /\ req = [r \in Reqs |-> IdleReq]
  /\ StoreInit

\* ------------------------------------------------- carts sent by clients
ItemLine(id, qty, price, supp) ==
  [item_id |-> id, quantity |-> qty, unit_price |-> price, supplement_id |-> supp]

BreakfastLine(id, qty, price, has, ids) ==
  [breakfast_id |-> id, quantity |-> qty, unit_price |-> price,
   has_option_ids |-> has, option_ids |-> ids]

Cart(its, bfs, total, type, addr, promo, tid, rid) ==
  [items |-> its, breakfastItems |-> bfs, total_price |-> total,
   order_type |-> type, delivery_address |-> addr, promotion_id |-> promo,
   table_id |-> tid, request_id |-> rid]

\* what the client itself adds up: quantity times declared unit price
ClientSum(its, bfs) ==
  SumOver(DOMAIN its, [k \in DOMAIN its |-> its[k].quantity * its[k].unit_price])
  + SumOver(DOMAIN bfs, [k \in DOMAIN bfs |-> bfs[k].quantity * bfs[k].unit_price])

Near(x) == {x - 2, x - 1, x, x + 1, x + 2}

ItemUnitPrices == {0, 498, 499, 500, 501, 502, 599, 600, 601, 602, 700}

\* one menu-item line, delivery, no promotion
ItemCarts ==
  UNION {{Cart(<<ItemLine(x[1], x[2], x[3], x[4])>>, <<>>, t, "delivery", "addr", 0, 0, "u1") :
            t \in Near(x[2] * x[3])} :
         x \in {0, 1, 2, 3, 9} \X {0, 1, 2} \X ItemUnitPrices \X {0, 1, 2}}

OptionLists ==
  {<<>>} \cup {<<a>> : a \in 1..4} \cup {<<a, b>> : a, b \in 1..4}
  \cup {<<a, b, c>> : a, b, c \in 1..3}

BreakfastUnitPrices == {800, 1000, 1100, 1200, 1201, 1202, 1300}

BreakfastLines ==
  {BreakfastLine(id, qty, u, TRUE, ids) :
     id \in 1..3, qty \in 1..2, u \in BreakfastUnitPrices, ids \in OptionLists}
  \cup {BreakfastLine(id, qty, u, FALSE, <<>>) :
     id \in 1..3, qty \in 1..2, u \in BreakfastUnitPrices}

\* one breakfast line, delivery, no promotion, the client's own total
BreakfastCarts ==
  {Cart(<<>>, <<l>>, l.quantity * l.unit_price, "delivery", "addr", 0, 0, "u1") :
     l \in BreakfastLines}

PromoItems ==
  {<<>>, <<ItemLine(1, 1, 500, 0)>>, <<ItemLine(1, 2, 600, 1)>>,
   <<ItemLine(2, 1, 600, 0)>>, <<ItemLine(1, 1, 500, 0), ItemLine(2, 2, 600, 0)>>}

PromoBreakfasts ==
  {<<>>, <<BreakfastLine(2, 1, 800, FALSE, <<>>)>>,
   <<BreakfastLine(1, 2, 1200, TRUE, <<1, 3>>)>>,
   <<BreakfastLine(2, 1, 800, TRUE, <<>>)>>}

\* totals a client may declare for a cart with a promotion: around the full
\* sum, around half of it, around half of the menu-item lines only
PromoTotals(its, bfs) ==
  UNION {Near(m) : m \in {ClientSum(its, bfs),
                          ClientSum(its, bfs) \div 2,
                          ClientSum(its, <<>>) \div 2 + ClientSum(<<>>, bfs),
                          ClientSum(its, bfs) - 250,
                          ClientSum(its, bfs) - 600}}

\* carts with a promotion, local or delivery
PromoCarts ==
  UNION {{Cart(c[1], c[2], t, c[3][1], c[3][2], c[4], c[3][3], "u1") :
            t \in PromoTotals(c[1], c[2])} :
         c \in PromoItems \X PromoBreakfasts
                 \X {<<"local", "", 1>>, <<"delivery", "addr", 0>>, <<"delivery", "addr", 1>>,
                     <<"local", "", 2>>, <<"local", "", 3>>}
                 \X (1..4)}

\* carts with two lines of the same breakfast, delivery, no promotion, the
\* client's own total
MergedCarts ==
  {Cart(<<>>, <<a, b>>, ClientSum(<<>>, <<a, b>>), "delivery", "addr", 0, 0, "u1") :
     a \in {BreakfastLine(1, 1, 1200, TRUE, <<1, 3>>), BreakfastLine(2, 1, 800, FALSE, <<>>)},
     b \in {BreakfastLine(1, 1, 1200, TRUE, <<1, 3>>), BreakfastLine(1, 2, 1300, TRUE, <<3, 2>>),
            BreakfastLine(2, 2, 800, TRUE, <<>>), BreakfastLine(2, 1, 801, FALSE, <<>>)}}

CartPayloads == ItemCarts \cup BreakfastCarts \cup PromoCarts \cup MergedCarts

\* ---------------------------------------------------------- specifications
\* one request, over the carts above: the reconciliation, the persistence it
\* leads to, and the failures of the store
NextCart ==
  \/ /\ req[1].kind = "none"
     /\ \E p \in CartPayloads : Receive(1, p, "s1")
  \/ PostStep(1)
  \/ BreakfastStep(1)
  \/ PostFault(1)

SpecCart == Init /\ [][NextCart]_vars

\* carts of the concurrent specification: a local order of one menu item, and
\* the same with a wrong total
CartA == Cart(<<ItemLine(1, 1, 500, 0)>>, <<>>, 500, "local", "", 0, 1, "u1")

CartWrongTotal == Cart(<<ItemLine(1, 1, 500, 0)>>, <<>>, 400, "local", "", 0, 1, "u1")

Payloads == {CartA, CartWrongTotal}

\* concurrent POST /orders requests, the guard's clock and timers, and the
\* failures of the store
\* slots are taken in order, so a lower slot arrived earlier
Free(r) == req[r].kind = "none" /\ \A k \in Reqs : k < r => req[k].kind # "none"

Next ==
  \/ \E r \in Reqs :
       \/ /\ Free(r)
          /\ \E p \in Payloads : Receive(r, p, "s1")
       \/ PostStep(r)
       \/ PostFault(r)
  \/ \E t \in timers : TimerFire(t)
  \/ Tick

Spec == Init /\ [][Next]_vars

\* one order placed by slot 0, and concurrent staff requests on the others
SessionUsers == 0..4

OrderIds == 0..2

InitApprove ==
  /\ req = [r \in {0} \cup Reqs |-> IdleReq]
  /\ StoreInit

NextApprove ==
  \/ /\ req[0].kind = "none"
     /\ Receive(0, CartA, "s1")
  \/ PostStep(0)
  \/ \E r \in Reqs :
       \/ /\ Free(r)
          /\ \E id \in OrderIds, u \in SessionUsers : ApproveReceive(r, id, u, "s2")
       \/ /\ Free(r)
          /\ \E u \in SessionUsers : ListReceive(r, u, "s2")
       \/ ApproveStep(r)
       \/ ListStep(r)

SpecApprove == InitApprove /\ [][NextApprove]_vars

\* one order with a menu-item line, a breakfast line with options and a
\* promotion, placed by slot 0, and the other order routes on the other
\* slots: approve, PUT and GET of one order
CartFull ==
  Cart(<<ItemLine(1, 1, 500, 0)>>, <<BreakfastLine(1, 1, 1200, TRUE, <<1, 3>>)>>,
       1450, "local", "", 2, 1, "u1")

OpsUsers == {0, 1, 3}

OpsIds == {0, 1}

NextOrderOps ==
  \/ /\ req[0].kind = "none"
     /\ Receive(0, CartFull, "s1")
  \/ PostStep(0)
  \/ BreakfastStep(0)
  \/ \E r \in Reqs :
       \/ /\ Free(r)
          /\ \E id \in OpsIds, u \in OpsUsers : ApproveReceive(r, id, u, "s2")
       \/ /\ Free(r)
          /\ \E id \in OpsIds, u \in OpsUsers : PutReceive(r, id, u, "s2")
       \/ /\ Free(r)
          /\ \E id \in OpsIds : GetReceive(r, id, "s2")
       \/ ApproveStep(r)
       \/ PutAuth(r)
       \/ GetQuery(r)

SpecOrderOps == InitApprove /\ [][NextOrderOps]_vars

\* one request with menu-item lines, while an admin changes menu item 1
CatalogCarts ==
  {Cart(its, <<>>, ClientSum(its, <<>>), c[1], c[2], 0, c[3], "u1") :
     its \in {<<ItemLine(1, q, u, 0)>> : q \in 1..2, u \in {400, 500, 600}}
             \cup {<<ItemLine(2, 1, 600, 0), ItemLine(1, 2, u, 0)>> : u \in {400, 500, 600}},
     c \in {<<"local", "", 1>>, <<"delivery", "addr", 0>>}}

NextCatalog ==
  \/ /\ req[1].kind = "none"
     /\ \E p \in CatalogCarts : Receive(1, p, "s1")
  \/ PostStep(1)
  \/ \E row \in MenuRows : MenuItemUpdate(1, row)

SpecCatalog == Init /\ [][NextCatalog]_vars

\* concurrent reservation requests
Reservations ==
  {Reservation(1, tm, "+1234567890") : tm \in 0..3}
  \cup {Reservation(0, 1, "+1234567890"), Reservation(3, 1, "+1234567890"),
        Reservation(1, 1, "12345")}

NextReserve ==
  \E r \in Reqs :
    \/ /\ Free(r)
       /\ \E p \in Reservations : ReserveReceive(r, p)
    \/ ReserveStep(r)
    \/ ReserveFails(r)

SpecReserve == Init /\ [][NextReserve]_vars

\* one local order placed by slot 0 for a table that is available, reserved
\* or missing, and one reservation request for table 1 or 2 on slot 1
TableCarts ==
  {Cart(<<ItemLine(1, 1, 500, 0)>>, <<>>, 500, "local", "", 0, tid, "u1") : tid \in 1..3}

NextTable ==
  \/ /\ req[0].kind = "none"
     /\ \E p \in TableCarts : Receive(0, p, "s1")
  \/ PostStep(0)
  \/ /\ req[1].kind = "none"
     /\ \E tid \in 1..2 : ReserveReceive(1, Reservation(tid, 1, "+1234567890"))
  \/ ReserveStep(1)
  \/ ReserveFails(1)

SpecTable == InitApprove /\ [][NextTable]_vars

\* the load of the db module, the network, and the queries of the routes
InitPool ==
  /\ req = [r \in Reqs |-> IdleReq]
  /\ DataInit
  /\ db = DbNotLoaded

NextPool ==
  \/ LoadDb
  \/ ConnectOk
  \/ ConnectFails
  \/ DelayElapsed
  \/ HostChange
  \/ RouteQuery

SpecPool == InitPool /\ [][NextPool]_vars

\* one request over the order types, addresses and table ids a client may
\* send with a valid cart
FieldCarts ==
  {Cart(<<ItemLine(1, 1, 500, 0)>>, <<>>, 500, type, addr, 0, tid, "u1") :
     type \in {"local", "delivery", "pickup", ""},
     addr \in {"", " ", "addr"},
     tid \in {0, 1, 2, 3, NaN, 0 - 11, 0 - 12}}

NextFields ==
  \/ /\ req[1].kind = "none"
     /\ \E p \in FieldCarts : Receive(1, p, "s1")
  \/ PostStep(1)
  \/ PostFault(1)

SpecFields == Init /\ [][NextFields]_vars

\* ------------------------------------------------------------- properties
\* rows a request has made visible in the store
OrdersBy(r) == {o \in orders : o.by = r}

RowsBy(r) ==
  OrdersBy(r) \cup {x \in order_items : x.by = r}
  \cup {x \in breakfast_order_options : x.by = r}
  \cup {x \in notifications : x.by = r}

EventsBy(r) == {e \in events : e.by = r}

\* two POST /orders requests with the same fingerprint
SameFingerprint(a, b) ==
  /\ req[a].kind = "post" /\ req[b].kind = "post"
  /\ orderHash(req[a].body) = orderHash(req[b].body)

\* positions of a POST /orders request behind the total check
AfterTotalPcs == {"conn", "begin", "commit", "rollback"} \cup TxStatementPcs

\* C1: of two requests with the same fingerprint, when the later one reaches
\* the guard less than 15 seconds after the earlier one was registered, the
\* later one is answered 429 and persists nothing; the pair persists at most
\* one order, and exactly one once the earlier request is answered 201.
C1_DuplicateSuppressed ==
  \A a, b \in DOMAIN req :
    (/\ a < b /\ SameFingerprint(a, b)
     /\ req[a].registered /\ req[b].guardAt >= 0
     /\ req[b].guardAt - req[a].guardAt < GuardWindow)
    => /\ req[b].status = 429
       /\ RowsBy(b) = {} /\ req[b].tx = EmptyTx
       /\ Cardinality(OrdersBy(a) \cup OrdersBy(b)) <= 1
       /\ req[a].status = 201 => Cardinality(OrdersBy(a) \cup OrdersBy(b)) = 1

C1_Witness ==
  \E a, b \in DOMAIN req :
    /\ a < b /\ SameFingerprint(a, b)
    /\ req[a].guardAt < req[b].guardAt
    /\ req[b].guardAt - req[a].guardAt < GuardWindow
    /\ req[a].status = 201 /\ req[b].status = 429
    /\ Cardinality(OrdersBy(a) \cup OrdersBy(b)) = 1

\* C10: no entry stays in the guard for more than 15 seconds; a request is
\* answered 429 only when an identical one was registered at most 15 seconds
\* before it; and two identical requests that are both answered 201 have
\* persisted two orders.
C10_ExpiryReadmits ==
  /\ \A e \in recentRequests : now - e.at <= GuardWindow
  /\ \A b \in DOMAIN req :
       req[b].status = 429 =>
         \E a \in DOMAIN req :
           /\ a < b /\ SameFingerprint(a, b) /\ req[a].registered
           /\ req[b].guardAt - req[a].guardAt <= GuardWindow
  /\ \A a, b \in DOMAIN req :
       (a < b /\ SameFingerprint(a, b) /\ req[a].status = 201 /\ req[b].status = 201)
       => Cardinality(OrdersBy(a) \cup OrdersBy(b)) = 2

C10_Witness ==
  \E a, b \in DOMAIN req :
    /\ a < b /\ SameFingerprint(a, b)
    /\ req[a].registered
    /\ req[b].guardAt - req[a].guardAt > GuardWindow
    /\ req[a].status = 201 /\ req[b].status = 201
    /\ Cardinality(OrdersBy(a) \cup OrdersBy(b)) = 2

\* C2: a request whose transaction failed at a statement (or at the commit)
\* has no row in orders, order_items, breakfast_order_options or
\* notifications, and once it has completed its answer is 500.
C2_RollbackLeavesNothing ==
  \A r \in DOMAIN req :
    (req[r].kind = "post" /\ req[r].fault \in {"tx", "commit"})
    => /\ RowsBy(r) = {}
       /\ req[r].pc = "done" => (req[r].status = 500 /\ req[r].tx = EmptyTx)

C2_Witness ==
  \E r \in DOMAIN req :
    /\ req[r].kind = "post" /\ req[r].pc = "done" /\ req[r].fault = "tx"
    /\ req[r].status = 500
    /\ req[r].orderId # 0 /\ req[r].orderItemId # 0 /\ req[r].notificationId # 0
    /\ Len(req[r].breakfastMap) > 0 /\ Len(req[r].breakfastMap[1].option_ids) > 0

\* C3: a request gets behind the total check, and so to 201, only when the
\* declared total_price is within 1 cent of the computed total; the 400 of
\* the total check reports both values; the stored total_price is the
\* computed total.
C3_TotalReconciled ==
  \A r \in DOMAIN req :
    req[r].kind = "post" =>
      /\ (req[r].status = 201 \/ req[r].pc \in AfterTotalPcs)
           => Abs(req[r].body.total_price - req[r].calculatedTotal) <= Tolerance
      /\ req[r].err = "TotalMismatch"
           => /\ req[r].status = 400
              /\ req[r].detail = <<req[r].calculatedTotal, req[r].body.total_price>>
              /\ Abs(req[r].body.total_price - req[r].calculatedTotal) > Tolerance
      /\ \A o \in orders \cup req[r].tx.orders :
           o.by = r => o.total_price = req[r].calculatedTotal

C3_Witness ==
  \E r \in DOMAIN req :
    /\ req[r].kind = "post" /\ req[r].status = 201
    /\ req[r].body.total_price # req[r].calculatedTotal
    /\ \E o \in orders : o.by = r /\ o.total_price = req[r].calculatedTotal

\* C4 (as claimed): a request answered 400 has written no row, has not
\* updated a table, and has published no event.
C4_NoWriteBefore400 ==
  \A r \in DOMAIN req :
    (req[r].kind = "post" /\ req[r].status = 400)
    => (~req[r].wroteTable /\ RowsBy(r) = {} /\ EventsBy(r) = {})

\* a line selects exactly one option of each group of its breakfast
ExactlyOnePerGroup(line) ==
  LET b == line.breakfast_id
      ids == line.option_ids
  IN /\ line.has_option_ids
     /\ Len(ids) = Cardinality(GroupRows(b))
     /\ \A k \in DOMAIN ids :
          ids[k] \in DOMAIN breakfast_options /\ breakfast_options[ids[k]].breakfast_id = b
     /\ \A g \in GroupRows(b) :
          Cardinality({k \in DOMAIN ids : breakfast_options[ids[k]].group_id = g}) = 1

\* C5 (as claimed): behind option validation every line of a breakfast with
\* option groups has exactly one option of each group, and a cart of one
\* such line is not rejected by option validation.
C5_OneOptionPerGroup ==
  \A r \in DOMAIN req :
    req[r].kind = "post" =>
      /\ (req[r].status = 201 \/ req[r].pc \in AfterTotalPcs)
           => \A k \in DOMAIN req[r].body.breakfastItems :
                LET line == req[r].body.breakfastItems[k] IN
                GroupRows(line.breakfast_id) # {} => ExactlyOnePerGroup(line)
      /\ (/\ Len(req[r].body.items) = 0 /\ Len(req[r].body.breakfastItems) = 1
          /\ GroupRows(req[r].body.breakfastItems[1].breakfast_id) # {}
          /\ ExactlyOnePerGroup(req[r].body.breakfastItems[1]))
           => req[r].err \notin {"InvalidOptions", "MissingGroups", "NoGroups"}

\* the expected unit price of a menu-item line, as the rule states it
ClaimedUnitPrice(item) ==
  LET m == menu_items[item.item_id] IN
  (IF m.sale_null THEN m.regular_price ELSE m.sale_price)
  + (IF item.supplement_id = 0 THEN 0
     ELSE menu_item_supplements[<<item.item_id, item.supplement_id>>].additional_price)

\* the catalog has the item of the line, and its supplement if it names one
Priceable(item) ==
  /\ item.item_id \in DOMAIN menu_items
  /\ item.supplement_id # 0 => <<item.item_id, item.supplement_id>> \in DOMAIN menu_item_supplements

\* C6: a request with a menu-item line whose declared unit_price is more
\* than 1 cent from the sale price (else the regular price) plus the
\* supplement's price never leaves the menu-item loop, is answered 400 and
\* persists nothing; the 400 for the price reports that expected price.
C6_UnitPriceReconciled ==
  \A r \in DOMAIN req :
    req[r].kind = "post" =>
      /\ \A k \in DOMAIN req[r].body.items :
           LET item == req[r].body.items[k] IN
           (Priceable(item) /\ Abs(item.unit_price - ClaimedUnitPrice(item)) > Tolerance)
           => /\ req[r].pc \in {"items", "done"}
              /\ req[r].pc = "done" => req[r].status = 400
              /\ RowsBy(r) = {} /\ req[r].tx = EmptyTx
      /\ (req[r].err = "PriceMismatch" /\ Len(req[r].body.breakfastItems) = 0)
           => /\ req[r].status = 400
              /\ req[r].detail[1] = ClaimedUnitPrice(req[r].body.items[req[r].i])

C6_Witness ==
  \E r \in DOMAIN req :
    /\ req[r].kind = "post" /\ req[r].status = 400 /\ req[r].err = "PriceMismatch"
    /\ Len(req[r].body.items) = 1
    /\ req[r].body.items[1].item_id = 2 /\ req[r].body.items[1].unit_price = 700
    /\ RowsBy(r) = {}

\* the total under a promotion, as the rule states it: the discount on every
\* line the promotion covers, all lines when it has no scoped item
ClaimedPromoTotal(body, promo) ==
  LET its == body.items
      bfs == body.breakfastItems
  IN SumOver(DOMAIN its,
             [k \in DOMAIN its |->
                IF promo.item_id = 0 \/ its[k].item_id = promo.item_id
                THEN Discounted(ClaimedUnitPrice(its[k]) * its[k].quantity,
                                promo.discount_percentage)
                ELSE ClaimedUnitPrice(its[k]) * its[k].quantity])
     + SumOver(DOMAIN bfs,
               [k \in DOMAIN bfs |->
                  IF promo.item_id = 0
                  THEN Discounted(PromoBreakfastPrice(bfs[k]), promo.discount_percentage)
                  ELSE PromoBreakfastPrice(bfs[k])])

\* C7 (as claimed): behind the total check of a request with an active
\* promotion, the computed total is the total under the promotion with the
\* discount on every covered line, breakfast lines included.
C7_PromotionCoversAllLines ==
  \A r \in DOMAIN req :
    (/\ req[r].kind = "post"
     /\ req[r].status = 201 \/ req[r].pc \in AfterTotalPcs
     /\ req[r].body.promotion_id \in DOMAIN promotions
     /\ promotions[req[r].body.promotion_id].active)
    => req[r].calculatedTotal =
         ClaimedPromoTotal(req[r].body, promotions[req[r].body.promotion_id])

\* the approved flag of order id, 0 when there is no such order
ApprovedFlag(rows, id) ==
  IF \E o \in rows : o.id = id /\ o.approved = 1 THEN 1 ELSE 0

\* what holds of the approve requests in one state
ApproveOutcomes ==
  \A r \in DOMAIN req :
    req[r].kind = "approve" =>
      /\ req[r].err = "AlreadyApproved"
           => /\ req[r].status = 400 /\ EventsBy(r) = {}
              /\ ApprovedFlag(orders, req[r].param) = 1
      /\ req[r].status = 200
           => /\ checkAdminOrServer(req[r].user)
              /\ ApprovedFlag(orders, req[r].param) = 1

\* C8: no step takes an approved flag from 1 back to 0; the step in which an
\* approve request of a staff user finds its order approved answers 400 and
\* changes neither the orders nor the events; the step in which it finds the
\* order unapproved leads to the update, after which the flag is 1, and the
\* last step answers 200.
C8_ApprovalOneWay ==
  [][/\ \A o \in orders : o.approved = 1 => ApprovedFlag(orders', o.id) = 1
     /\ ApproveOutcomes /\ ApproveOutcomes'
     /\ \A r \in DOMAIN req :
          (req[r].kind = "approve" /\ req'[r] # req[r]) =>
            /\ (req[r].pc = "select" /\ ApprovedFlag(orders, req[r].param) = 1)
                 => /\ req'[r].status = 400 /\ req'[r].err = "AlreadyApproved"
                    /\ orders' = orders /\ events' = events
            /\ (req[r].pc = "select" /\ \E o \in orders : o.id = req[r].param /\ o.approved = 0)
                 => req'[r].pc = "update"
            /\ req[r].pc = "update"
                 => ApprovedFlag(orders', req[r].param) = 1 /\ req'[r].pc = "details"
            /\ req[r].pc = "details" => req'[r].status = 200
    ]_vars

C8_Witness ==
  \E a, b \in DOMAIN req :
    /\ req[a].kind = "approve" /\ req[b].kind = "approve"
    /\ req[a].param = req[b].param
    /\ req[a].status = 200
    /\ req[b].status = 400 /\ req[b].err = "AlreadyApproved"
    /\ ApprovedFlag(orders, req[a].param) = 1

\* C9 (as claimed): a completed approve or list request of a caller without
\* session user, or whose user is neither admin nor server, was answered 403,
\* never got to the update, and published no event.
C9_StaffOnly ==
  \A r \in DOMAIN req :
    (/\ req[r].kind \in {"approve", "list"} /\ req[r].pc = "done"
     /\ ~(req[r].user # 0 /\ checkAdminOrServer(req[r].user)))
    => req[r].status = 403 /\ EventsBy(r) = {}

\* table_id is present and is a number
NumericTable(t) == t > 0

\* C11 (as claimed): every order row, committed or written in a transaction,
\* has order_type local or delivery; a completed request for a delivery
\* order with a missing or blank address, or for a local order with a
\* missing or non-numeric table_id, was rejected (400, or 429 by the guard)
\* and wrote nothing; the address is demanded of delivery orders only and
\* the table of local orders only.
C11_OrderTypeFields ==
  /\ \A o \in orders : o.order_type \in {"local", "delivery"}
  /\ \A r \in DOMAIN req :
       req[r].kind = "post" =>
         LET b == req[r].body IN
         /\ \A o \in req[r].tx.orders : o.order_type \in {"local", "delivery"}
         /\ (/\ req[r].pc = "done"
             /\ \/ b.order_type = "delivery" /\ BlankAddress(b.delivery_address)
                \/ b.order_type = "local" /\ ~NumericTable(b.table_id))
              => /\ req[r].status \in {400, 429}
                 /\ RowsBy(r) = {} /\ ~req[r].wroteTable
         /\ req[r].err = "AddressRequired" => b.order_type = "delivery"
         /\ req[r].err = "TableRequired" => b.order_type = "local"

\* C12 (as claimed): a request answered 201 has published an event for its
\* order on the broadcast channel and one on the channel of its own session;
\* a request answered 200 by the approval has published an event for the
\* order on the channel of the session that placed it and one on the
\* broadcast channel.
C12_FanOutBothChannels ==
  \A r \in DOMAIN req :
    /\ (req[r].kind = "post" /\ req[r].status = 201)
         => /\ \E e \in EventsBy(r) :
                 e.name = "newOrder" /\ e.room = "broadcast" /\ e.ref = req[r].orderId
            /\ \E e \in EventsBy(r) :
                 e.room = req[r].sessionID /\ e.ref = req[r].orderId
    /\ (req[r].kind = "approve" /\ req[r].status = 200)
         => /\ \E e \in EventsBy(r) :
                 e.name = "orderApproved" /\ e.room = "broadcast" /\ e.ref = req[r].param
            /\ \E e \in EventsBy(r), o \in orders :
                 /\ o.id = req[r].param /\ e.room = o.session_id
                 /\ e.name = "order-approved" /\ e.ref = req[r].param

\* the tableStatusUpdate events a request has published for table t
TableEvents(r, t) ==
  {e \in EventsBy(r) : e.name = "tableStatusUpdate" /\ e.room = "broadcast" /\ e.ref = t}

\* C13 (as claimed): a completed order-creation request that has changed the
\* status of its table has published a broadcast tableStatusUpdate event for
\* that table, and a request publishes such an event only for a table whose
\* status it has changed.
C13_TableChangeAnnounced ==
  \A r \in DOMAIN req :
    req[r].kind = "post" =>
      /\ (req[r].pc = "done" /\ req[r].wroteTable)
           => TableEvents(r, req[r].body.table_id) # {}
      /\ (\E e \in EventsBy(r) : e.name = "tableStatusUpdate")
           => req[r].wroteTable /\ tables[SqlInt(req[r].body.table_id)] = "occupied"

\* the notification rows of type 'order' that reference order id
OrderNotifications(id) ==
  {n \in notifications : n.type = "order" /\ n.reference_id = id}

\* C14: every order in the store has exactly one notification row of type
\* 'order' referencing it, written by the request that wrote the order; a
\* notification row of type 'order' is in the store only together with its
\* order; an approve request writes no notification row.
C14_OneNotificationPerOrder ==
  /\ \A o \in orders :
       /\ Cardinality(OrderNotifications(o.id)) = 1
       /\ \A n \in OrderNotifications(o.id) : n.by = o.by
  /\ \A n \in notifications :
       n.type = "order" => \E o \in orders : o.id = n.reference_id
  /\ \A r \in DOMAIN req :
       req[r].kind = "approve" =>
         /\ {n \in notifications : n.by = r} = {}
         /\ req[r].tx = EmptyTx

C14_Witness ==
  \E o \in orders : \E a, b \in DOMAIN req :
    /\ a # b
    /\ req[a].kind = "approve" /\ req[a].param = o.id /\ req[a].status = 200
    /\ req[b].kind = "approve" /\ req[b].param = o.id /\ req[b].pc = "done"
    /\ req[b].status \in {200, 400}
    /\ Cardinality(OrderNotifications(o.id)) = 1

\* C15 (as claimed): a completed request whose transaction has committed
\* was answered 201 with the id of its order, and that order is in the
\* store, also when an emit failed after the commit.
C15_PublishFailureNotPropagated ==
  \A r \in DOMAIN req :
    (req[r].kind = "post" /\ req[r].committed /\ req[r].pc = "done")
    => /\ req[r].status = 201 /\ req[r].detail = <<req[r].orderId>>
       /\ \E o \in OrdersBy(r) : o.id = req[r].orderId

\* C16 (as claimed): once a request whose transaction failed and was rolled
\* back has completed, the status of its table is the status the request
\* found when it read the table.
C16_TableChangeRolledBack ==
  \A r \in DOMAIN req :
    (/\ req[r].kind = "post" /\ req[r].pc = "done"
     /\ req[r].fault \in {"tx", "commit"}
     /\ SqlInt(req[r].body.table_id) \in DOMAIN tables)
    => tables[SqlInt(req[r].body.table_id)] = req[r].tableStatus

\* the approve requests for order id that were answered 200
ApprovedBy(id) ==
  {r \in DOMAIN req : req[r].kind = "approve" /\ req[r].param = id /\ req[r].status = 200}

\* the requests that have published order-approved events for order id
ApprovalPublishers(id) ==
  {e.by : e \in {x \in events : x.name \in {"order-approved", "orderApproved"} /\ x.ref = id}}

\* C17 (as claimed): of the approve requests for one order at most one is
\* answered 200, and the order-approved events of the order are published by
\* at most one request.
C17_SingleApprovalWins ==
  \A o \in orders :
    /\ Cardinality(ApprovedBy(o.id)) <= 1
    /\ Cardinality(ApprovalPublishers(o.id)) <= 1

\* C18: a request has published events only if its transaction has
\* committed; a request still between beginTransaction and commit, and a
\* request whose transaction failed and was rolled back, has published none;
\* every newOrder event is about an order that is in the store.
C18_EventsAfterCommit ==
  \A r \in DOMAIN req :
    req[r].kind = "post" =>
      /\ EventsBy(r) # {} => req[r].committed
      /\ req[r].pc \in TxStatementPcs \cup {"commit"} => EventsBy(r) = {}
      /\ req[r].fault \in {"tx", "commit"} => EventsBy(r) = {}
      /\ \A e \in EventsBy(r) :
           e.name = "newOrder" => \E o \in OrdersBy(r) : o.id = e.ref

C18_Witness ==
  \E r \in DOMAIN req :
    /\ req[r].kind = "post" /\ req[r].pc = "done" /\ req[r].status = 500
    /\ req[r].fault = "commit" /\ req[r].notificationId # 0
    /\ req[r].wroteTable
    /\ EventsBy(r) = {}

\* the order_items rows of order o
LinesOf(o) == {x \in order_items : x.order_id = o.id}

\* the line total of a persisted row after promotion adjustment: unit_price
\* times quantity, discounted when the order has an active promotion and the
\* row is a menu-item line the promotion pass discounts
AdjustedLine(o, x) ==
  LET pid == o.promotion_id
      hit == pid \in DOMAIN promotions /\ promotions[pid].active
  IN IF hit /\ x.item_id # 0 /\ PromoApplies(promotions[pid], x)
     THEN Discounted(x.unit_price * x.quantity, promotions[pid].discount_percentage)
     ELSE x.unit_price * x.quantity

\* C19 (as claimed): for every order in the store, total_price is within
\* 1 cent of the sum of its order_items rows' line totals after promotion
\* adjustment.
C19_TotalMatchesLines ==
  \A o \in orders :
    Abs(o.total_price
        - SumOver(LinesOf(o), [x \in LinesOf(o) |-> AdjustedLine(o, x)])) <= Tolerance

\* positions of a POST /orders request at which a catalog read or a check
\* of reconciliation is still to come
ReconcilePcs == {"items", "breakfasts", "table", "promo"}

\* C20 (as claimed): a request that has written to the store has no
\* reconciliation read or check left and is not rejected by the total check;
\* a request that has published an event has committed; a request answered
\* 201 has published its events.
C20_PhasesOrdered ==
  \A r \in DOMAIN req :
    req[r].kind = "post" =>
      /\ (req[r].wroteTable \/ req[r].orderId # 0)
           => /\ req[r].pc \notin ReconcilePcs
              /\ req[r].err \notin {"TotalMismatch", "PriceMismatch"}
      /\ EventsBy(r) # {} => req[r].committed
      /\ req[r].status = 201 => CreatedEvents(r, req[r]) \subseteq events

\* the cart lines of body that name breakfast b
LinesFor(body, b) ==
  {k \in DOMAIN body.breakfastItems : body.breakfastItems[k].breakfast_id = b}

\* the option ids stored for order_items row x
OptionsOf(x) ==
  {o.breakfast_option_id : o \in {y \in breakfast_order_options : y.order_item_id = x.id}}

Unflagged(o) == [o EXCEPT !.approved = 0]

\* C22: in every step, each order in the store stays in the store with all
\* its fields but the approved flag unchanged, and each order_items and
\* option row stays as it is; a step of a PUT /orders/:id request changes
\* nothing in the store and publishes nothing, and the request ends with an
\* error status; a step of an approve request changes no row other than
\* order rows.
C22_OrderImmutable ==
  [][/\ \A o \in orders : \E n \in orders' : Unflagged(n) = Unflagged(o)
     /\ order_items \subseteq order_items'
     /\ breakfast_order_options \subseteq breakfast_order_options'
     /\ \A r \in DOMAIN req :
          /\ (req'[r].kind = "put" /\ req'[r] # req[r])
               => /\ UNCHANGED <<db, dbvars, tables, events, nextId>>
                  /\ req'[r].pc = "done" => req'[r].status \in {400, 403, 500}
          /\ (req[r].kind = "approve" /\ req'[r] # req[r])
               => /\ UNCHANGED <<db, order_items, breakfast_order_options, notifications, tables>>
                  /\ {Unflagged(o) : o \in orders'} = {Unflagged(o) : o \in orders}
    ]_vars

C22_Witness ==
  \E a, b \in DOMAIN req :
    /\ req[a].kind = "put" /\ req[a].param = 1 /\ req[a].status = 400
    /\ req[a].err = "NotSupported"
    /\ req[b].kind = "approve" /\ req[b].param = 1 /\ req[b].status = 200
    /\ \E o \in orders : o.id = 1 /\ o.approved = 1 /\ o.total_price = 1450
    /\ Cardinality({x \in order_items : x.order_id = 1}) = 2
    /\ Cardinality(breakfast_order_options) = 2

\* the total of the prices request q has read, line by line
SeenTotal(q) ==
  SumOver(DOMAIN q.seen, [k \in DOMAIN q.seen |-> q.seen[k] * q.body.items[k].quantity])

\* what holds of a committed request and the prices it has read
CommittedFromSeen ==
  \A r \in DOMAIN req :
    (req[r].kind = "post" /\ req[r].committed /\ req[r].body.promotion_id = 0
     /\ Len(req[r].body.breakfastItems) = 0) =>
      /\ Len(req[r].seen) = Len(req[r].body.items)
      /\ \E o \in OrdersBy(r) : o.total_price = SeenTotal(req[r])
      /\ \A k \in DOMAIN req[r].body.items :
           \E x \in order_items :
             /\ x.by = r /\ x.item_id = req[r].body.items[k].item_id
             /\ x.unit_price = req[r].body.items[k].unit_price
             /\ Abs(x.unit_price - req[r].seen[k]) <= Tolerance

\* C23: a committed order has the total of the prices its request read in
\* the menu-item loop and unit prices within 1 cent of them, whatever the
\* catalog holds by then; a step of a request that is behind reconciliation
\* keeps the computed total and never rejects for price or availability; a
\* change of the catalog leaves the request's computed total and rows as
\* they are.
C23_CommitKeepsReadPrices ==
  [][/\ CommittedFromSeen'
     /\ \A r \in DOMAIN req :
          (req[r].kind = "post" /\ req[r].pc \in AfterTotalPcs) =>
            /\ req'[r].calculatedTotal = req[r].calculatedTotal
            /\ req'[r].seen = req[r].seen
            /\ req'[r].status \in {0, 201, 500}
            /\ catalog' # catalog => /\ req'[r].pc = req[r].pc
                                    /\ req'[r].tx = req[r].tx
    ]_vars

C23_Witness ==
  \E r \in DOMAIN req :
    /\ req[r].kind = "post" /\ req[r].status = 201 /\ req[r].raced
    /\ Len(req[r].body.items) = 2
    /\ req[r].seen = <<600, 500>>
    /\ (catalog[1].regular_price = 600 \/ ~catalog[1].availability)
    /\ \E o \in OrdersBy(r) : o.total_price = 1600

\* C24: every entry of the duplicate-guard map is the only entry of its
\* fingerprint, is at most 15 seconds old, and has exactly one pending timer,
\* the one due 15 seconds after the entry was registered; every pending timer
\* belongs to such an entry, so a timer never deletes an entry registered
\* later than its own.
C24_OneTimerPerEntry ==
  /\ \A e \in recentRequests :
       /\ Cardinality({f \in recentRequests : f.hash = e.hash}) = 1
       /\ Cardinality({t \in timers : t.hash = e.hash}) = 1
       /\ [hash |-> e.hash, due |-> e.at + GuardWindow] \in timers
       /\ now <= e.at + GuardWindow
  /\ \A t \in timers :
       [hash |-> t.hash, at |-> t.due - GuardWindow] \in recentRequests

C24_Witness ==
  \E a, b \in DOMAIN req :
    /\ SameFingerprint(a, b)
    /\ req[a].registered /\ req[b].registered
    /\ req[a].guardAt + GuardWindow <= req[b].guardAt
    /\ [hash |-> orderHash(req[b].body), at |-> req[b].guardAt] \in recentRequests
    /\ Cardinality(timers) = 1

\* C25: when a request that registered its fingerprint is answered 400 or
\* 500, an identical request arriving within 15 seconds of the registration
\* is answered 429, and the store holds no order of either request.
C25_RejectedStillGuards ==
  \A a, b \in DOMAIN req :
    (/\ a # b /\ SameFingerprint(a, b)
     /\ req[a].registered /\ req[a].status \in {400, 500}
     /\ req[b].guardAt >= req[a].guardAt
     /\ req[b].guardAt < req[a].guardAt + GuardWindow) =>
      /\ req[b].status = 429
      /\ OrdersBy(a) = {} /\ OrdersBy(b) = {}

\* C26: a completed order request holds no connection: a connection it
\* acquired has been released, and a request is in possession of a connection
\* only between getConnection and its response.
C26_ConnectionReleased ==
  \A r \in DOMAIN req :
    req[r].kind = "post" =>
      /\ req[r].pc = "done" => req[r].conn \in {"none", "released"}
      /\ req[r].conn = "released" => req[r].pc = "done"
      /\ req[r].conn = "held" =>
           req[r].pc \in {"begin", "commit", "rollback"} \cup TxStatementPcs

\* C27: two reservations of one table are at least 2 hours apart.
C27_ReservationsApart ==
  \A x, y \in reservations :
    (x # y /\ x.table_id = y.table_id) =>
      Abs(x.reservation_time - y.reservation_time) >= ReservationSpan

\* the table an order request names, as the store reads it
NamedTable(r) == SqlInt(req[r].body.table_id)

\* C28: no step of an order request changes a table from 'reserved' to
\* 'occupied'; an order request commits its order only while the table it
\* names is not 'reserved'; and an order request that has read its table as
\* missing or 'reserved' is answered 400.
C28_ReservedTableKept ==
  [][\A r \in DOMAIN req :
       (req[r].kind = "post" /\ req'[r] # req[r]) =>
         /\ \A t \in DOMAIN tables :
              ~(tables[t] = "reserved" /\ tables'[t] = "occupied")
         /\ (~req[r].committed /\ req'[r].committed /\ NamedTable(r) \in DOMAIN tables) =>
              tables[NamedTable(r)] # "reserved"
         /\ (/\ req[r].pc = "table"
             /\ (NamedTable(r) \notin DOMAIN tables \/ tables[NamedTable(r)] = "reserved")) =>
              req'[r].status = 400
    ]_vars

\* attempts createPoolWithRetry may still make, counting the one in progress
\* and the delays ahead of it
AttemptsLeft ==
  LET made == Len(db.log) IN
  CASE db.pc = "load" -> 4 * retries + 1
    [] db.pc = "connect" -> 2 * (2 * retries - made) + 2
    [] db.pc = "wait" -> 2 * (2 * retries - made) + 1
    [] OTHER -> 0

\* the attempts made are the first ones of the order internal 1..retries,
\* public 1..retries
AttemptOrder ==
  \A k \in DOMAIN db.log :
    /\ db.log[k].host = (IF k <= retries THEN 1 ELSE 2)
    /\ db.log[k].attempt = (IF k <= retries THEN k ELSE k - retries)

\* C29: createPoolWithRetry attempts the internal host up to retries times and
\* then the public host up to retries times; no attempt follows a successful
\* one, and it returns exactly when the last attempt succeeded; a delay
\* precedes exactly the attempts that are not the first on their host; it
\* throws exactly when 2 x retries attempts have been made and all failed;
\* every step of it brings it closer to its end.
C29_RetryOrder ==
  /\ [](/\ Len(db.log) <= 2 * retries
        /\ AttemptOrder
        /\ \A k \in DOMAIN db.log :
             /\ db.log[k].ok => k = Len(db.log)
             /\ db.log[k].delayed <=> db.log[k].attempt > 1
        /\ db.pc = "ready" <=> (db.log # <<>> /\ db.log[Len(db.log)].ok)
        /\ db.pc = "wait" => db.attempt < retries
        /\ db.pc = "failed" <=>
             (/\ Len(db.log) = 2 * retries /\ db.pc # "connect"
              /\ \A k \in DOMAIN db.log : ~db.log[k].ok))
  /\ [][db.pc' # db.pc \/ db.log' # db.log => AttemptsLeft' < AttemptsLeft]_vars

C29_Witness ==
  /\ db.pc = "ready"
  /\ Len(db.log) = retries + 2
  /\ db.log[retries + 2].host = 2 /\ db.log[retries + 2].delayed

\* C30: once createPoolWithRetry has returned, the value of module.exports
\* is the pool it returned, and the queries of the routes go to that pool.
C30_ExportedPoolConnected ==
  db.pc = "ready" =>
    /\ db.exported = db.pool
    /\ db.queried.sent => db.queried.pool \in {0, db.pool}

====
